---- MODULE Spec2Model ----
(***************************************************************************)
(* The expense query engine of the Splitwise MCP server: the list_expenses *)
(* arm of SplitwiseTools::handle_tool_call (src/src/tools.rs), driven      *)
(* against the paginated upstream reached through                          *)
(* SplitwiseClient::get_expenses (src/src/splitwise.rs).                   *)
(*                                                                         *)
(* The handler is an async function.  It can be suspended only at an       *)
(* .await, i.e. at a get_expenses call; the code between two awaits runs *)
(* without interruption and is one action here:                            *)
(*   Start(i)     arguments are parsed, the fetch path is chosen and the   *)
(*                first request is issued (or the handler returns);        *)
(*   FetchOk(i)   the outstanding request answers with a page: filter,     *)
(*                append, break or advance, next request or return;        *)
(*   FetchFail(i) the outstanding request fails: ? returns the error.    *)
(* The handler is awaited by the tools/call arm of one of the three front  *)
(* ends (main.rs, main_simple.rs, main_http.rs); when it returns, the arm  *)
(* builds the response in the same step.                                   *)
(*                                                                         *)
(* Encodings.  Option<T>: <<>> is None and <<x>> is Some(x).  A String is  *)
(* the sequence of its characters.  An Expense of the upstream is          *)
(* identified by its position (1-based) in the upstream's stable order, a  *)
(* Vec<Expense> is the sequence of these positions and ExpenseAt gives the *)
(* record.  A serde_json object is a function from its keys to values.     *)
(***************************************************************************)
EXTENDS Integers, Sequences, FiniteSets, TLC

VARIABLES upstream, args, pc, path, current_offset, expenses, calls, result,
          frontend, response, http

vars == <<upstream, args, pc, path, current_offset, expenses, calls, result,
          frontend, response, http>>

----------------------------------------------------------------------------
(* Option<T> *)

None == <<>>

Some(x) == <<x>>

is_some(o) == o # <<>>

is_none(o) == o = <<>>

unwrap_or(o, d) == IF o = <<>> THEN d ELSE o[1]

Range(f) == {f[k] : k \in DOMAIN f}

Min(a, b) == IF a < b THEN a ELSE b

Max(a, b) == IF a > b THEN a ELSE b

----------------------------------------------------------------------------
(* Bounds of the model *)

\* Upstreams hold up to MaxBatches full batches (plus one record).
MaxBatches == 2

\* Result-count caps 0..MaxLimit are tried (besides -1 and batch_size + 1).
MaxLimit == 2

\* The page size the upstream applies to a request that carries no limit.
\* It belongs to the upstream service, not to this repository.
UpstreamDefaultLimit == 20

----------------------------------------------------------------------------
(* Strings: str::to_lowercase and str::contains *)

UpperCase == <<"A","B","C","D","E","F","G","H","I","J","K","L","M",
               "N","O","P","Q","R","S","T","U","V","W","X","Y","Z">>

LowerCase == <<"a","b","c","d","e","f","g","h","i","j","k","l","m",
               "n","o","p","q","r","s","t","u","v","w","x","y","z">>

\* The lower-case letter of each upper-case letter.
LowerOf == [c \in Range(UpperCase) |->
               LowerCase[CHOOSE k \in DOMAIN UpperCase : UpperCase[k] = c]]

LowerChar(c) == IF c \in DOMAIN LowerOf THEN LowerOf[c] ELSE c

to_lowercase(s) == [k \in DOMAIN s |-> LowerChar(s[k])]

contains(hay, needle) ==
    \E k \in 0..(Len(hay) - Len(needle)) :
        SubSeq(hay, k + 1, k + Len(needle)) = needle

----------------------------------------------------------------------------
(* The upstream's records *)

StrTaxi == <<"T","a","x","i">>

StrWholeFoodsRun ==
    <<"W","h","o","l","e"," ","F","o","o","d","s"," ","r","u","n">>

StrFoodCourt == <<"F","O","O","D"," ","c","o","u","r","t">>

StrCash == <<"c","a","s","h">>

StrHome == <<"H","o","m","e">>

StrFoodName == <<"F","o","o","d">>

UserRef == [id |-> 42, first_name |-> "Ann", last_name |-> None, picture |-> None]

Kinds == 0..15

\* The Expense values the upstreams are made of: every combination of
\* deleted / active, two category ids, and where (if anywhere) the text
\* "food" occurs.  The id is filled in by ExpenseAt.
KindRecord[k \in Kinds] ==
    LET del == k % 2
        cat == (k \div 2) % 2
        txt == (k \div 4) % 4
    IN  [ id |-> 0,
          group_id |-> IF cat = 0 THEN Some(7) ELSE None,
          friendship_id |-> IF cat = 0 THEN None ELSE Some(9),
          expense_bundle_id |-> None,
          description |-> IF txt = 1 THEN StrWholeFoodsRun ELSE StrTaxi,
          repeats |-> FALSE,
          repeat_interval |-> None,
          email_reminder |-> FALSE,
          email_reminder_in_advance |-> None,
          next_repeat |-> None,
          details |-> IF txt = 2 THEN Some(StrFoodCourt)
                      ELSE IF txt = 1 THEN Some(StrCash) ELSE None,
          comments_count |-> 0,
          payment |-> FALSE,
          creation_method |-> None,
          transaction_method |-> None,
          transaction_confirmed |-> FALSE,
          transaction_id |-> None,
          transaction_status |-> None,
          cost |-> "25.00",
          currency_code |-> "USD",
          repayments |-> <<>>,
          date |-> "2024-04-30",
          created_at |-> "2024-04-30",
          created_by |-> UserRef,
          updated_at |-> "2024-04-30",
          updated_by |-> None,
          deleted_at |-> IF del = 1 THEN Some("2024-05-01") ELSE None,
          deleted_by |-> IF (del = 1 /\ cat = 0) \/ (del = 0 /\ cat = 1 /\ txt = 3)
                         THEN Some(UserRef) ELSE None,
          category |-> [ id |-> cat + 1,
                         name |-> IF txt = 3 THEN StrFoodName ELSE StrHome,
                         icon |-> None,
                         subcategories |-> None ],
          receipt |-> [original |-> None, large |-> None],
          users |-> <<>> ]

SparsePositions == {5, 150, 280}

\* The kind of the record at position p of an upstream laid out as layout.
KindAt(layout, p) ==
    CASE layout = "cycle"  -> (p - 1) % 16
      [] layout = "sparse" -> IF p \in SparsePositions THEN 4 ELSE 3
      [] layout = "all"    -> 4

ExpenseAt(u, p) == [KindRecord[KindAt(u.layout, p)] EXCEPT !.id = p]

----------------------------------------------------------------------------
(* SplitwiseClient::get_expenses against the upstream.  The page of a      *)
(* request is records[offset .. offset + limit], empty past the end.  A    *)
(* request without limit gets the upstream's default page, one without     *)
(* offset starts at 0.  What the upstream does with a negative limit or    *)
(* offset is not known to this repository: it may fail (FetchFail is       *)
(* always possible) or answer as if the parameter were absent.             *)

\* i64::to_string / i32::to_string: the decimal text of a number.
int_to_string(x) == <<"decimal", x>>

\* The query string get_expenses builds: one (name, value) pair for each
\* parameter that is Some, in the order of the code.
query_params(params) ==
    (IF is_some(params.group_id)
        THEN << <<"group_id", int_to_string(params.group_id[1])>> >> ELSE <<>>)
    \o (IF is_some(params.friend_id)
        THEN << <<"friend_id", int_to_string(params.friend_id[1])>> >> ELSE <<>>)
    \o (IF is_some(params.dated_after)
        THEN << <<"dated_after", params.dated_after[1]>> >> ELSE <<>>)
    \o (IF is_some(params.dated_before)
        THEN << <<"dated_before", params.dated_before[1]>> >> ELSE <<>>)
    \o (IF is_some(params.updated_after)
        THEN << <<"updated_after", params.updated_after[1]>> >> ELSE <<>>)
    \o (IF is_some(params.updated_before)
        THEN << <<"updated_before", params.updated_before[1]>> >> ELSE <<>>)
    \o (IF is_some(params.limit)
        THEN << <<"limit", int_to_string(params.limit[1])>> >> ELSE <<>>)
    \o (IF is_some(params.offset)
        THEN << <<"offset", int_to_string(params.offset[1])>> >> ELSE <<>>)

get_expenses(u, params) ==
    LET lim == IF is_some(params.limit) /\ params.limit[1] >= 0
               THEN params.limit[1] ELSE UpstreamDefaultLimit
        off == IF is_some(params.offset) /\ params.offset[1] >= 0
               THEN params.offset[1] ELSE 0
        len == Max(0, Min(lim, u.n - off))
    IN  [k \in 1..len |-> off + k]

\* SplitwiseClient::get_expense against the upstream: the record with the
\* id, None when the upstream has none (the call then fails).
get_expense(u, id) == IF id \in 1..u.n THEN Some(id) ELSE None

----------------------------------------------------------------------------
(* The HTTP transport (main_http.rs): the authentication gate of /mcp.     *)
(* Header values and credentials are sequences of bytes (ASCII codes).     *)

\* "Bearer " and "Basic ", the prefixes check_auth strips.
BearerPrefix == <<66, 101, 97, 114, 101, 114, 32>>
BasicPrefix == <<66, 97, 115, 105, 99, 32>>

\* str::strip_prefix
strip_prefix(s, p) ==
    IF Len(s) >= Len(p) /\ SubSeq(s, 1, Len(p)) = p
    THEN Some(SubSeq(s, Len(p) + 1, Len(s))) ELSE None

\* HeaderValue::to_str: the value as a str when every byte is a visible
\* ASCII character, a space or a tab.
to_str(v) ==
    IF \A k \in DOMAIN v : v[k] \in 32..126 \/ v[k] = 9 THEN Some(v) ELSE None

\* The value of a character of the standard base64 alphabet, None for any
\* other byte (the padding character included).
base64_value(c) ==
    CASE c \in 65..90  -> Some(c - 65)
      [] c \in 97..122 -> Some(c - 71)
      [] c \in 48..57  -> Some(c + 4)
      [] c = 43        -> Some(62)
      [] c = 47        -> Some(63)
      [] OTHER         -> None

\* One group of four characters: three bytes, or two or one when the group
\* is padded; the bits beyond the last byte must be zero.
base64_decode_group(g, last) ==
    LET v(k) == base64_value(g[k])
    IN  IF last /\ g[3] = 61 /\ g[4] = 61
        THEN IF v(1) # None /\ v(2) # None /\ v(2)[1] % 16 = 0
             THEN Some(<<v(1)[1] * 4 + v(2)[1] \div 16>>) ELSE None
        ELSE IF last /\ g[4] = 61
        THEN IF v(1) # None /\ v(2) # None /\ v(3) # None /\ v(3)[1] % 4 = 0
             THEN Some(<<v(1)[1] * 4 + v(2)[1] \div 16,
                         (v(2)[1] % 16) * 16 + v(3)[1] \div 4>>)
             ELSE None
        ELSE IF \A k \in 1..4 : v(k) # None
        THEN Some(<<v(1)[1] * 4 + v(2)[1] \div 16,
                    (v(2)[1] % 16) * 16 + v(3)[1] \div 4,
                    (v(3)[1] % 4) * 64 + v(4)[1]>>)
        ELSE None

RECURSIVE base64_decode_from(_, _)
base64_decode_from(s, k) ==
    IF k > Len(s) THEN Some(<<>>)
    ELSE LET g == base64_decode_group(SubSeq(s, k, k + 3), k + 3 = Len(s))
             rest == base64_decode_from(s, k + 4)
         IN  IF g = None \/ rest = None THEN None ELSE Some(g[1] \o rest[1])

\* STANDARD.decode: padded, canonical base64.
base64_decode(s) ==
    IF Len(s) % 4 # 0 THEN None ELSE base64_decode_from(s, 1)

\* String::from_utf8.  A sequence of bytes below 128 is valid; the only
\* other byte the requests of the model carry is 255, which no UTF-8
\* encoding holds.
from_utf8(bytes) ==
    IF \A k \in DOMAIN bytes : bytes[k] < 128 THEN Some(bytes) ELSE None

\* str::split(c).collect()
RECURSIVE split(_, _)
split(s, c) ==
    IF \E k \in DOMAIN s : s[k] = c
    THEN LET k == CHOOSE j \in DOMAIN s :
                      s[j] = c /\ \A m \in 1..(j - 1) : s[m] # c
         IN  <<SubSeq(s, 1, k - 1)>> \o split(SubSeq(s, k + 1, Len(s)), c)
    ELSE <<s>>

\* (mutant) the number of parts is not checked
check_auth_ignores_part_count(headers, state) ==
    IF is_some(headers.authorization) /\ is_some(to_str(headers.authorization[1]))
    THEN LET auth_str == to_str(headers.authorization[1])[1]
             token == strip_prefix(auth_str, BearerPrefix)
             basic == strip_prefix(auth_str, BasicPrefix)
         IN  IF is_some(token) /\ token[1] = state.auth_token THEN "Ok"
             ELSE IF is_some(basic) /\ is_some(base64_decode(basic[1]))
                     /\ is_some(from_utf8(base64_decode(basic[1])[1]))
             THEN LET parts == split(from_utf8(base64_decode(basic[1])[1])[1], 58)
                  IN  IF Len(parts) >= 2 /\ parts[1] = state.client_id
                         /\ parts[2] = state.client_secret
                      THEN "Ok" ELSE "UNAUTHORIZED"
             ELSE "UNAUTHORIZED"
    ELSE "UNAUTHORIZED"

\* check_auth: Ok for the Bearer token or for Basic credentials that split
\* at ':' into exactly the client id and the client secret.
check_auth(headers, state) ==
    IF is_some(headers.authorization) /\ is_some(to_str(headers.authorization[1]))
    THEN LET auth_str == to_str(headers.authorization[1])[1]
             token == strip_prefix(auth_str, BearerPrefix)
             basic == strip_prefix(auth_str, BasicPrefix)
         IN  IF is_some(token) /\ token[1] = state.auth_token THEN "Ok"
             ELSE IF is_some(basic) /\ is_some(base64_decode(basic[1]))
                     /\ is_some(from_utf8(base64_decode(basic[1])[1]))
             THEN LET parts == split(from_utf8(base64_decode(basic[1])[1])[1], 58)
                  IN  IF Len(parts) = 2 /\ parts[1] = state.client_id
                         /\ parts[2] = state.client_secret
                      THEN "Ok" ELSE "UNAUTHORIZED"
             ELSE "UNAUTHORIZED"
    ELSE "UNAUTHORIZED"

\* The Json extractor in the signature of mcp_handler runs before the body
\* of the handler: a body that is not JSON, or that is not announced as
\* JSON, is rejected there.  The status of the rejection depends on the
\* version of the framework; it is a client error other than 401.
JsonRejectionStatuses == {400, 415, 422}

json_extract(body) == body.kind = "json"

\* What mcp_handler has done when it returns or reaches the await of
\* handle_tool_call: the status it returned (None while the tool runs),
\* whether the method was parsed, the match arm it entered, its reply.
HandlerOutcome(status, parsed, arm, reply) ==
    [status |-> status, parsed |-> parsed, arm |-> arm, reply |-> reply]

mcp_handler(state, request) ==
    IF check_auth(request.headers, state) # "Ok"
    THEN HandlerOutcome(Some(401), FALSE, None, None)
    ELSE IF request.body.method = None
    THEN HandlerOutcome(Some(400), TRUE, None, None)
    ELSE LET method == request.body.method[1]
         IN  CASE method = "initialize" ->
                    HandlerOutcome(Some(200), TRUE, Some(method),
                        Some([id |-> request.body.id,
                              result |-> [serverInfo |-> "splitwise-mcp-server"]]))
               [] method = "tools/list" ->
                    HandlerOutcome(Some(200), TRUE, Some(method),
                        Some([id |-> request.body.id, result |-> [tools |-> "get_tools"]]))
               [] method = "tools/call" ->
                    IF request.body.params = None
                       \/ request.body.params[1].name = None
                    THEN HandlerOutcome(Some(400), TRUE, Some(method), None)
                    ELSE HandlerOutcome(None, TRUE, Some(method), None)
               [] OTHER ->
                    HandlerOutcome(Some(200), TRUE, Some(method),
                        Some([id |-> request.body.id,
                              error |-> [code |-> -32601,
                                         message |-> <<"Method not found: ", method>>]]))

\* The value of http in the runs that do not go through the HTTP transport.
NoHttp == <<>>

----------------------------------------------------------------------------
(* list_expenses: the pieces of the handler *)

batch_size == 100

\* l as usize of an i32: a negative l wraps to usize::MAX + 1 + l.  The
\* modulus stands for 2^64 (2^32 on a 32-bit target), which is beyond the
\* integers of the model checker; all that matters is that it exceeds the
\* length of every Vec the handler can build.
usize_modulus == 2^30

as_usize(l) == IF l >= 0 THEN l ELSE usize_modulus + l

\* (mutant) the cap taken one too large
desired_count_plus_one(a) ==
    IF is_some(a.limit) THEN Some(as_usize(a.limit[1]) + 1) ELSE None

\* args.limit.map(|l| l as usize)
desired_count(a) == IF is_some(a.limit) THEN Some(as_usize(a.limit[1])) ELSE None

\* args.include_deleted.as_deref().unwrap_or("exclude")
include_deleted(a) == unwrap_or(a.include_deleted, "exclude")

\* args.search_text.as_ref().map(|s| s.to_lowercase())
search_lower(a) ==
    IF is_some(a.search_text) THEN Some(to_lowercase(a.search_text[1])) ELSE None

\* (mutant) an empty list falls back to the default fields as well
search_fields_default_when_empty(a) ==
    IF a.search_fields = None \/ a.search_fields = Some(<<>>)
    THEN <<"description", "details", "category">>
    ELSE a.search_fields[1]

\* args.search_fields.clone().unwrap_or_else(|| vec![description, details, category])
search_fields(a) ==
    unwrap_or(a.search_fields, <<"description", "details", "category">>)

\* (mutant) the date range is not passed on
batch_params_drops_dates(a, off) ==
    [ group_id |-> a.group_id, friend_id |-> a.friend_id,
      dated_after |-> None, dated_before |-> None,
      updated_after |-> None, updated_before |-> None,
      limit |-> Some(batch_size), offset |-> Some(off) ]

\* (mutant) the caller's own limit is forwarded
batch_params_caller_limit(a, off) ==
    [ group_id |-> a.group_id, friend_id |-> a.friend_id,
      dated_after |-> a.dated_after, dated_before |-> a.dated_before,
      updated_after |-> None, updated_before |-> None,
      limit |-> a.limit, offset |-> Some(off) ]

\* The ListExpensesParams of a batch-loop request (both loops build the same).
batch_params(a, off) ==
    [ group_id |-> a.group_id, friend_id |-> a.friend_id,
      dated_after |-> a.dated_after, dated_before |-> a.dated_before,
      updated_after |-> None, updated_before |-> None,
      limit |-> Some(batch_size), offset |-> Some(off) ]

\* The ListExpensesParams of the single-call path.
simple_params(a) ==
    [ group_id |-> a.group_id, friend_id |-> a.friend_id,
      dated_after |-> a.dated_after, dated_before |-> a.dated_before,
      updated_after |-> None, updated_before |-> None,
      limit |-> a.limit, offset |-> a.offset ]

\* (mutant) an unrecognised mode lets deleted records through
deleted_rejects_unknown_includes(mode, expense) ==
    CASE mode = "exclude" -> is_some(expense.deleted_at)
      [] mode = "only"    -> is_none(expense.deleted_at)
      [] OTHER            -> FALSE

\* The deletion arm of the retain closure of the search/category loop:
\* TRUE when the closure returns false there.
deleted_rejects(mode, expense) ==
    CASE mode = "exclude" -> is_some(expense.deleted_at)
      [] mode = "only"    -> is_none(expense.deleted_at)
      [] mode = "include" -> FALSE
      [] OTHER            -> is_some(expense.deleted_at)

\* (mutant) the record's text is compared without lower-casing it
field_matches_case_sensitive(field, expense, needle) ==
    CASE field = "description" -> contains(expense.description, needle)
      [] field = "details" ->
            is_some(expense.details) /\ contains(expense.details[1], needle)
      [] field = "category" -> contains(expense.category.name, needle)
      [] OTHER -> FALSE

\* One arm of the match field.as_str() of the text search.
field_matches(field, expense, needle) ==
    CASE field = "description" ->
            contains(to_lowercase(expense.description), needle)
      [] field = "details" ->
            /\ is_some(expense.details)
            /\ contains(to_lowercase(expense.details[1]), needle)
      [] field = "category" ->
            contains(to_lowercase(expense.category.name), needle)
      [] OTHER -> FALSE

\* (mutant) a text hit accepts the record before its category is looked at
retain_search_text_first(expense, mode, category_ids, needle, fields) ==
    IF deleted_rejects(mode, expense) THEN FALSE
    ELSE IF is_some(needle)
         THEN \E k \in DOMAIN fields : field_matches(fields[k], expense, needle[1])
    ELSE IF /\ is_some(category_ids)
            /\ ~ \E k \in DOMAIN category_ids[1] :
                    category_ids[1][k] = expense.category.id
         THEN FALSE
    ELSE TRUE

\* The closure of batch.retain(..) in the search/category loop, with its
\* early returns in the order of the code.
retain_search(expense, mode, category_ids, needle, fields) ==
    IF deleted_rejects(mode, expense) THEN FALSE
    ELSE IF /\ is_some(category_ids)
            /\ ~ \E k \in DOMAIN category_ids[1] :
                    category_ids[1][k] = expense.category.id
         THEN FALSE
    ELSE IF is_some(needle)
         THEN \E k \in DOMAIN fields : field_matches(fields[k], expense, needle[1])
    ELSE TRUE

\* The closures of batch.retain(..) in the deleted-only loop.
retain_deleted(expense, mode) ==
    CASE mode = "exclude" -> is_none(expense.deleted_at)
      [] mode = "only"    -> is_some(expense.deleted_at)
      [] OTHER            -> is_none(expense.deleted_at)

\* (mutant) deleted records are dropped whatever the mode
retain_simple_ignores_mode(expense, mode) == is_none(expense.deleted_at)

\* The retain of the single-call path.
retain_simple(expense, mode) ==
    IF mode # "include"
    THEN CASE mode = "exclude" -> is_none(expense.deleted_at)
           [] mode = "only"    -> is_some(expense.deleted_at)
           [] OTHER            -> is_none(expense.deleted_at)
    ELSE TRUE

\* (mutant) the loop pushes the whole batch and leaves the cut to truncate
pushed_count_no_break(exp, batch, dc) == Len(batch)

\* for expense in batch { expenses.push(expense); if len >= limit { break } }
\* The loop pushes batch[1], batch[2], ... and leaves after the first push
\* that brings the length to the limit: pushed_count is the number of
\* pushes, the whole batch when the break never fires.
pushed_count(exp, batch, dc) ==
    LET breaks == IF is_some(dc)
                  THEN {k \in 1..Len(batch) : Len(exp) + k >= dc[1]}
                  ELSE {}
    IN  IF breaks = {} THEN Len(batch)
        ELSE CHOOSE k \in breaks : \A j \in 1..(k - 1) : j \notin breaks

\* (mutant) the batch is put in front of what was accumulated
append_batch_front(exp, batch, dc) ==
    SubSeq(batch, 1, pushed_count(exp, batch, dc)) \o exp

append_batch(exp, batch, dc) == exp \o SubSeq(batch, 1, pushed_count(exp, batch, dc))

\* The values expenses takes inside the for loop: the k-th is the
\* accumulator right after the k-th push.
push_states(exp, batch, dc) ==
    [k \in 1..pushed_count(exp, batch, dc) |-> exp \o SubSeq(batch, 1, k)]

\* Vec::truncate
truncate(exp, len) == IF Len(exp) > len THEN SubSeq(exp, 1, len) ELSE exp

\* if let Some(limit) = desired_count { expenses.truncate(limit) }
truncate_to_limit(exp, dc) == IF is_some(dc) THEN truncate(exp, dc[1]) ELSE exp

----------------------------------------------------------------------------
(* The projection to the requested fields *)

\* json!(x) of a value that is always present, and of an Option (None is null)
json(x) == <<"value", x>>

json_null == <<"null">>

json_option(o) == IF is_some(o) THEN json(o[1]) ELSE json_null

\* serde_json::Map::new() and Map::insert
empty_map == [k \in {} |-> json_null]

\* (mutant) only the first key of a map is written
insert_first_only(obj, key, value) ==
    IF DOMAIN obj = {} THEN [k \in {key} |-> value] ELSE obj

\* (mutant) a null value is not written
insert_skips_null(obj, key, value) ==
    IF value = json_null THEN obj
    ELSE [k \in (DOMAIN obj) \cup {key} |-> IF k = key THEN value ELSE obj[k]]

insert(obj, key, value) ==
    [k \in (DOMAIN obj) \cup {key} |-> IF k = key THEN value ELSE obj[k]]

\* (mutant) the key is written also when the record has no value
insert_deleted_at_always(obj, exp) ==
    insert(obj, "deleted_at", json_option(exp.deleted_at))

\* The "deleted_at" arm: the key is written only when the record has the value.
insert_deleted_at(obj, exp) ==
    IF is_some(exp.deleted_at)
    THEN insert(obj, "deleted_at", json_option(exp.deleted_at))
    ELSE obj

\* The "deleted_by" arm.
insert_deleted_by(obj, exp) ==
    IF is_some(exp.deleted_by)
    THEN insert(obj, "deleted_by", json_option(exp.deleted_by))
    ELSE obj

\* One iteration of for field in &args.fields { match field.as_str() {..} }
\* of list_expenses.
insert_field(obj, field, exp) ==
    CASE field = "id" -> insert(obj, "id", json(exp.id))
      [] field = "description" -> insert(obj, "description", json(exp.description))
      [] field = "cost" -> insert(obj, "cost", json(exp.cost))
      [] field = "currency_code" -> insert(obj, "currency_code", json(exp.currency_code))
      [] field = "date" -> insert(obj, "date", json(exp.date))
      [] field = "category" ->
            insert(obj, "category",
                   json([id |-> exp.category.id, name |-> exp.category.name]))
      [] field = "payment" -> insert(obj, "payment", json(exp.payment))
      [] field = "group_id" -> insert(obj, "group_id", json_option(exp.group_id))
      [] field = "friendship_id" -> insert(obj, "friendship_id", json_option(exp.friendship_id))
      [] field = "details" -> insert(obj, "details", json_option(exp.details))
      [] field = "users" -> insert(obj, "users", json(exp.users))
      [] field = "repayments" -> insert(obj, "repayments", json(exp.repayments))
      [] field = "created_at" -> insert(obj, "created_at", json(exp.created_at))
      [] field = "created_by" -> insert(obj, "created_by", json(exp.created_by))
      [] field = "updated_at" -> insert(obj, "updated_at", json(exp.updated_at))
      [] field = "updated_by" -> insert(obj, "updated_by", json_option(exp.updated_by))
      [] field = "deleted_at" -> insert_deleted_at(obj, exp)
      [] field = "deleted_by" -> insert_deleted_by(obj, exp)
      [] field = "receipt" -> insert(obj, "receipt", json(exp.receipt))
      [] field = "comments_count" -> insert(obj, "comments_count", json(exp.comments_count))
      [] field = "transaction_confirmed" -> insert(obj, "transaction_confirmed", json(exp.transaction_confirmed))
      [] field = "transaction_id" -> insert(obj, "transaction_id", json_option(exp.transaction_id))
      [] field = "transaction_method" -> insert(obj, "transaction_method", json_option(exp.transaction_method))
      [] field = "transaction_status" -> insert(obj, "transaction_status", json_option(exp.transaction_status))
      [] field = "repeats" -> insert(obj, "repeats", json(exp.repeats))
      [] field = "repeat_interval" -> insert(obj, "repeat_interval", json_option(exp.repeat_interval))
      [] field = "next_repeat" -> insert(obj, "next_repeat", json_option(exp.next_repeat))
      [] field = "email_reminder" -> insert(obj, "email_reminder", json(exp.email_reminder))
      [] field = "email_reminder_in_advance" -> insert(obj, "email_reminder_in_advance", json_option(exp.email_reminder_in_advance))
      [] field = "expense_bundle_id" -> insert(obj, "expense_bundle_id", json_option(exp.expense_bundle_id))
      [] OTHER -> obj

\* The loop over args.fields from element k on.
RECURSIVE project_from(_, _, _, _)
project_from(obj, fields, k, exp) ==
    IF k > Len(fields) THEN obj
    ELSE project_from(insert_field(obj, fields[k], exp), fields, k + 1, exp)

project(exp, fields) == project_from(empty_map, fields, 1, exp)

\* One iteration of for field in &args.fields { match field.as_str() {..} }
\* of get_expense.
insert_field_get_expense(obj, field, expense) ==
    CASE field = "id" -> insert(obj, "id", json(expense.id))
      [] field = "description" -> insert(obj, "description", json(expense.description))
      [] field = "cost" -> insert(obj, "cost", json(expense.cost))
      [] field = "currency_code" -> insert(obj, "currency_code", json(expense.currency_code))
      [] field = "date" -> insert(obj, "date", json(expense.date))
      [] field = "category" ->
            insert(obj, "category",
                   json([id |-> expense.category.id, name |-> expense.category.name]))
      [] field = "payment" -> insert(obj, "payment", json(expense.payment))
      [] field = "group_id" -> insert(obj, "group_id", json_option(expense.group_id))
      [] field = "friendship_id" -> insert(obj, "friendship_id", json_option(expense.friendship_id))
      [] field = "details" -> insert(obj, "details", json_option(expense.details))
      [] field = "users" -> insert(obj, "users", json(expense.users))
      [] field = "repayments" -> insert(obj, "repayments", json(expense.repayments))
      [] field = "created_at" -> insert(obj, "created_at", json(expense.created_at))
      [] field = "created_by" -> insert(obj, "created_by", json(expense.created_by))
      [] field = "updated_at" -> insert(obj, "updated_at", json(expense.updated_at))
      [] field = "updated_by" -> insert(obj, "updated_by", json_option(expense.updated_by))
      [] field = "deleted_at" ->
            IF is_some(expense.deleted_at)
            THEN insert(obj, "deleted_at", json_option(expense.deleted_at))
            ELSE obj
      [] field = "deleted_by" ->
            IF is_some(expense.deleted_by)
            THEN insert(obj, "deleted_by", json_option(expense.deleted_by))
            ELSE obj
      [] field = "receipt" -> insert(obj, "receipt", json(expense.receipt))
      [] field = "comments_count" -> insert(obj, "comments_count", json(expense.comments_count))
      [] field = "transaction_confirmed" -> insert(obj, "transaction_confirmed", json(expense.transaction_confirmed))
      [] field = "transaction_id" -> insert(obj, "transaction_id", json_option(expense.transaction_id))
      [] field = "transaction_method" -> insert(obj, "transaction_method", json_option(expense.transaction_method))
      [] field = "transaction_status" -> insert(obj, "transaction_status", json_option(expense.transaction_status))
      [] field = "repeats" -> insert(obj, "repeats", json(expense.repeats))
      [] field = "repeat_interval" -> insert(obj, "repeat_interval", json_option(expense.repeat_interval))
      [] field = "next_repeat" -> insert(obj, "next_repeat", json_option(expense.next_repeat))
      [] field = "email_reminder" -> insert(obj, "email_reminder", json(expense.email_reminder))
      [] field = "email_reminder_in_advance" -> insert(obj, "email_reminder_in_advance", json_option(expense.email_reminder_in_advance))
      [] field = "expense_bundle_id" -> insert(obj, "expense_bundle_id", json_option(expense.expense_bundle_id))
      [] OTHER -> obj

RECURSIVE project_from_get_expense(_, _, _, _)
project_from_get_expense(obj, fields, k, expense) ==
    IF k > Len(fields) THEN obj
    ELSE project_from_get_expense(insert_field_get_expense(obj, fields[k], expense),
                                  fields, k + 1, expense)

\* (mutant) get_expense always reports the id
project_get_expense_with_id(expense, fields) ==
    project_from_get_expense(insert(empty_map, "id", json(expense.id)), fields, 1, expense)

project_get_expense(expense, fields) ==
    project_from_get_expense(empty_map, fields, 1, expense)

----------------------------------------------------------------------------
(* Results and errors.  An error is a record: its text and, for an error    *)
(* built by anyhow!(..) from another, the values formatted into the text.  *)

Ok(v) == [ok |-> TRUE, value |-> v]

Err(e) == [ok |-> FALSE, error |-> e]

\* What serde_json::from_value reports when fields is missing.
SerdeError == [text |-> "missing field fields"]

\* What get_expenses reports when the request or the decoding fails.
UpstreamError == [text |-> "API error"]

\* anyhow!("Failed to fetch batch at offset {}: {}", current_offset, e)
annotate(off, e) ==
    [text |-> "Failed to fetch batch at offset {}: {}", offset |-> off, source |-> e]

----------------------------------------------------------------------------
(* list_expenses between two awaits.  l is the handler's local state:    *)
(* [pc, path, current_offset, expenses, calls, result].                    *)

\* The arguments deserialize: fields is the one required member.
args_deserialize(a) == is_some(a.fields)

\* Which of the three fetch paths serves the arguments.
fetch_path(a) ==
    IF is_some(a.search_text) \/ is_some(a.category_ids) THEN "search"
    ELSE IF include_deleted(a) # "include" /\ is_some(a.limit) THEN "deleted"
    ELSE "simple"

\* (mutant) an empty result is reported as an error
return_ok_rejects_empty(u, a, l) ==
    IF l.expenses = <<>>
    THEN [l EXCEPT !.pc = "done",
                   !.result = Some(Err([text |-> "No expenses found"]))]
    ELSE [l EXCEPT !.pc = "done",
                   !.result = Some(Ok([k \in DOMAIN l.expenses |->
                                  project(ExpenseAt(u, l.expenses[k]), a.fields[1])]))]

\* expenses.into_iter().map(|exp| ..project..).collect(), then Ok(Array)
return_ok(u, a, l) ==
    [l EXCEPT !.pc = "done",
              !.result = Some(Ok([k \in DOMAIN l.expenses |->
                             project(ExpenseAt(u, l.expenses[k]), a.fields[1])]))]

\* After either loop: truncate to the requested limit, project, return.
finish_loop(u, a, l) ==
    return_ok(u, a, [l EXCEPT !.expenses = truncate_to_limit(@, desired_count(a))])

\* (mutant) the limit is checked at the tail of the loop body only
loop_head_cap_at_tail(u, a, l) ==
    IF is_some(desired_count(a)) /\ Len(l.expenses) >= desired_count(a)[1]
       /\ l.calls # <<>>
    THEN finish_loop(u, a, l)
    ELSE [l EXCEPT !.pc = "await",
                   !.calls = Append(@, batch_params(a, l.current_offset))]

\* (mutant) the next batch is requested together with this one
loop_head_prefetch(u, a, l) ==
    IF is_some(desired_count(a)) /\ Len(l.expenses) >= desired_count(a)[1]
    THEN finish_loop(u, a, l)
    ELSE [l EXCEPT !.pc = "await",
                   !.calls = @ \o <<batch_params(a, l.current_offset),
                                    batch_params(a, l.current_offset + batch_size)>>]

\* The head of either loop: break when the limit is reached, else issue the
\* request for the batch at current_offset and await it.
loop_head(u, a, l) ==
    IF is_some(desired_count(a)) /\ Len(l.expenses) >= desired_count(a)[1]
    THEN finish_loop(u, a, l)
    ELSE [l EXCEPT !.pc = "await",
                   !.calls = Append(@, batch_params(a, l.current_offset))]

\* (mutant) the cursor advanced as if it counted pages, not records
advance_by_one(off) == off + 1

\* current_offset += batch_size
advance(off) == off + batch_size

\* The batch's records the loop keeps.
retain_batch(u, a, p, batch) ==
    IF p = "search"
    THEN SelectSeq(batch, LAMBDA x : retain_search(ExpenseAt(u, x), include_deleted(a),
                                         a.category_ids, search_lower(a), search_fields(a)))
    ELSE SelectSeq(batch, LAMBDA x : retain_deleted(ExpenseAt(u, x), include_deleted(a)))

\* (mutant) a batch shorter than batch_size ends the loop
on_batch_stops_on_short_batch(u, a, l, batch) ==
    LET kept == retain_batch(u, a, l.path, batch)
        l2 == [l EXCEPT !.expenses = append_batch(@, kept, desired_count(a))]
    IN  IF Len(batch) < batch_size
        THEN finish_loop(u, a, l2)
        ELSE loop_head(u, a, [l2 EXCEPT !.current_offset = advance(@)])

\* (mutant) the cursor advances by the number of records received
on_batch_advances_by_len(u, a, l, batch) ==
    LET kept == retain_batch(u, a, l.path, batch)
        l2 == [l EXCEPT !.expenses = append_batch(@, kept, desired_count(a))]
    IN  IF batch = <<>>
        THEN finish_loop(u, a, l2)
        ELSE loop_head(u, a, [l2 EXCEPT !.current_offset = @ + Len(batch)])

\* The body of either loop once the batch has arrived.
on_batch(u, a, l, batch) ==
    LET batch_had_results == batch # <<>>
        kept == retain_batch(u, a, l.path, batch)
        l2 == [l EXCEPT !.expenses = append_batch(@, kept, desired_count(a))]
    IN  IF ~ batch_had_results
        THEN finish_loop(u, a, l2)
        ELSE loop_head(u, a, [l2 EXCEPT !.current_offset = advance(@)])

\* The single-call path once its page has arrived.
on_simple(u, a, l, batch) ==
    return_ok(u, a, [l EXCEPT !.expenses =
        SelectSeq(batch, LAMBDA x : retain_simple(ExpenseAt(u, x), include_deleted(a)))])

\* (mutant) the loops start at the first record, whatever the caller's offset
start_ignores_offset(u, a, l) ==
    IF ~ args_deserialize(a)
    THEN [l EXCEPT !.pc = "done", !.result = Some(Err(SerdeError))]
    ELSE IF fetch_path(a) = "simple"
    THEN [l EXCEPT !.pc = "await", !.path = "simple",
                   !.calls = Append(@, simple_params(a))]
    ELSE loop_head(u, a, [l EXCEPT !.path = fetch_path(a), !.current_offset = 0])

\* The handler from its entry to its first await or return.
start(u, a, l) ==
    IF ~ args_deserialize(a)
    THEN [l EXCEPT !.pc = "done", !.result = Some(Err(SerdeError))]
    ELSE IF fetch_path(a) = "simple"
    THEN [l EXCEPT !.pc = "await", !.path = "simple",
                   !.calls = Append(@, simple_params(a))]
    ELSE loop_head(u, a, [l EXCEPT !.path = fetch_path(a),
                                   !.current_offset = unwrap_or(a.offset, 0)])

\* get_expense from its entry to its await: the arguments deserialize
\* (expense_id and fields are required) and the record is requested.
start_get_expense(a, l) ==
    IF ~ args_deserialize(a)
    THEN [l EXCEPT !.pc = "done", !.result = Some(Err(SerdeError))]
    ELSE [l EXCEPT !.pc = "await", !.path = "get_expense",
                   !.calls = Append(@, [expense_id |-> a.expense_id])]

\* get_expense once the record has arrived: project and return the object.
on_expense(u, a, l, id) ==
    [l EXCEPT !.pc = "done", !.expenses = <<id>>,
              !.result = Some(Ok(project_get_expense(ExpenseAt(u, id), a.fields[1])))]

\* (mutant) the failed request is issued again
on_error_retry(l, e) == [l EXCEPT !.calls = Append(@, l.calls[Len(l.calls)])]

\* The error the handler returns when the awaited request fails.
fetch_error(l, e) ==
    IF l.path = "search" THEN annotate(l.current_offset, e) ELSE e

on_error(l, e) == [l EXCEPT !.pc = "done", !.result = Some(Err(fetch_error(l, e)))]

----------------------------------------------------------------------------
(* The tools/call arm of the front ends: what is sent for the handler's    *)
(* Result.  id is the id of the request.                                   *)

\* serde_json::Value::to_string(): the JSON text of a value.
value_to_string(v) == <<"json", v>>

\* e.to_string() of the handler's error: the message, with the values that
\* anyhow!(..) formatted into it.
RECURSIVE error_to_string(_)
error_to_string(e) ==
    IF "offset" \in DOMAIN e
    THEN <<"Failed to fetch batch at offset ", e.offset, ": ">>
             \o error_to_string(e.source)
    ELSE <<e.text>>

text_content(t) == <<[type |-> "text", text |-> t]>>

\* main.rs on_call_tool: a CallToolResult in either case; a failure is one
\* flagged is_error whose text is the JSON object {"error": message}.
on_call_tool(id, r) ==
    IF r.ok
    THEN [ content |-> text_content(value_to_string(r.value)), is_error |-> None ]
    ELSE [ content |-> text_content(value_to_string(
                            [error |-> error_to_string(r.error)])),
           is_error |-> Some(TRUE) ]

\* The JSON-RPC response of main_simple.rs and main_http.rs on Ok(result).
jsonrpc_result(id, value) ==
    [ jsonrpc |-> "2.0", id |-> id,
      result |-> [content |-> text_content(value_to_string(value))] ]

\* (mutant) the error response is given a prefix of its own
jsonrpc_error_prefixed(id, e) ==
    [ jsonrpc |-> "2.0", id |-> id,
      error |-> [code |-> -32603,
                 message |-> <<"Tool error: ">> \o error_to_string(e)] ]

\* The JSON-RPC response of main_simple.rs and main_http.rs on Err(e).
jsonrpc_error(id, e) ==
    [ jsonrpc |-> "2.0", id |-> id,
      error |-> [code |-> -32603, message |-> error_to_string(e)] ]

\* main_simple.rs run_server, "tools/call"
run_server_tools_call(id, r) ==
    IF r.ok THEN jsonrpc_result(id, r.value) ELSE jsonrpc_error(id, r.error)

\* main_http.rs mcp_handler, "tools/call"
mcp_handler_tools_call(id, r) ==
    IF r.ok THEN jsonrpc_result(id, r.value) ELSE jsonrpc_error(id, r.error)

Frontends == {"main", "main_simple", "main_http"}

tools_call(f, id, r) ==
    CASE f = "main"        -> on_call_tool(id, r)
      [] f = "main_simple" -> run_server_tools_call(id, r)
      [] f = "main_http"   -> mcp_handler_tools_call(id, r)

----------------------------------------------------------------------------
(* The state machine *)

Local(i) ==
    [ pc |-> pc[i], path |-> path[i], current_offset |-> current_offset[i],
      expenses |-> expenses[i], calls |-> calls[i], result |-> result[i] ]

\* (mutant) one offset cursor for all invocations
Update_shared_cursor(i, l) ==
    /\ pc' = [pc EXCEPT ![i] = l.pc]
    /\ path' = [path EXCEPT ![i] = l.path]
    /\ current_offset' = [j \in DOMAIN current_offset |-> l.current_offset]
    /\ expenses' = [expenses EXCEPT ![i] = l.expenses]
    /\ calls' = [calls EXCEPT ![i] = l.calls]
    /\ result' = [result EXCEPT ![i] = l.result]
    /\ response' = [response EXCEPT ![i] =
                        IF l.pc = "done"
                        THEN Some(tools_call(frontend, i, l.result[1])) ELSE None]
    /\ UNCHANGED <<upstream, args, frontend, http>>

Update(i, l) ==
    /\ pc' = [pc EXCEPT ![i] = l.pc]
    /\ path' = [path EXCEPT ![i] = l.path]
    /\ current_offset' = [current_offset EXCEPT ![i] = l.current_offset]
    /\ expenses' = [expenses EXCEPT ![i] = l.expenses]
    /\ calls' = [calls EXCEPT ![i] = l.calls]
    /\ result' = [result EXCEPT ![i] = l.result]
    /\ response' = [response EXCEPT ![i] =
                        IF l.pc = "done"
                        THEN Some(tools_call(frontend, i, l.result[1])) ELSE None]
    /\ UNCHANGED <<upstream, args, frontend, http>>

\* The request the handler is waiting for.
Outstanding(i) == calls[i][Len(calls[i])]

Start(i) ==
    /\ pc[i] = "init"
    /\ args[i].name = "list_expenses"
    /\ Update(i, start(upstream, args[i], Local(i)))

FetchOk(i) ==
    /\ pc[i] = "await"
    /\ path[i] # "get_expense"
    /\ LET batch == get_expenses(upstream, Outstanding(i))
       IN  IF path[i] = "simple"
           THEN Update(i, on_simple(upstream, args[i], Local(i), batch))
           ELSE Update(i, on_batch(upstream, args[i], Local(i), batch))

FetchFail(i) ==
    /\ pc[i] = "await"
    /\ Update(i, on_error(Local(i), UpstreamError))

Next == \E i \in DOMAIN pc : Start(i) \/ FetchOk(i) \/ FetchFail(i)

\* The "get_expense" arm of handle_tool_call.
StartGetExpense(i) ==
    /\ pc[i] = "init"
    /\ args[i].name = "get_expense"
    /\ Update(i, start_get_expense(args[i], Local(i)))

GetExpenseOk(i) ==
    /\ pc[i] = "await"
    /\ path[i] = "get_expense"
    /\ get_expense(upstream, Outstanding(i).expense_id) # None
    /\ Update(i, on_expense(upstream, args[i], Local(i),
                            get_expense(upstream, Outstanding(i).expense_id)[1]))

\* Both tools that project expenses.
NextTools ==
    \E i \in DOMAIN pc :
        \/ Start(i) \/ FetchOk(i) \/ FetchFail(i)
        \/ StartGetExpense(i) \/ GetExpenseOk(i)

----------------------------------------------------------------------------
(* Inputs *)

Scope == [ group_id |-> Some(7), friend_id |-> None,
           dated_after |-> Some("2024-01-01"), dated_before |-> None ]

Limits == {None} \cup {Some(x) : x \in {-1} \cup (0..MaxLimit) \cup {batch_size + 1}}

Offsets == {None} \cup {Some(x) : x \in {-1, 1, batch_size + 50}}

Modes == {None, Some("exclude"), Some("include"), Some("only"), Some("all")}

StrFoOd == <<"F","o","O","d">>

Filters ==
    [search_text : {None}, search_fields : {None},
     category_ids : {None, Some(<<>>), Some(<<1>>)}]
    \cup
    [search_text : {Some(StrFoOd)},
     search_fields : {None, Some(<<"description">>),
                      Some(<<"details", "category">>), Some(<<"notes">>)},
     category_ids : {None}]
    \cup
    [search_text : {Some(StrFoOd)}, search_fields : {None},
     category_ids : {Some(<<1>>)}]

FieldLists == {Some(<<>>), Some(<<"id", "deleted_at", "deleted_by">>)}

MakeArguments(lim, off, fl, f, m) ==
    [ name |-> "list_expenses",
      group_id |-> Scope.group_id, friend_id |-> Scope.friend_id,
      dated_after |-> Scope.dated_after, dated_before |-> Scope.dated_before,
      limit |-> lim, offset |-> off, fields |-> fl,
      search_text |-> f.search_text, search_fields |-> f.search_fields,
      category_ids |-> f.category_ids, include_deleted |-> m ]

\* The arguments tried: every combination of cap, starting offset, filters
\* and mode with a field list that is not empty, calls with the empty field
\* list, and calls that lack the required field list.
Arguments ==
    { MakeArguments(lim, off, fl, f, m) :
        lim \in Limits, off \in Offsets, fl \in FieldLists \ {Some(<<>>)},
        f \in Filters, m \in Modes }
    \cup
    { MakeArguments(lim, off, Some(<<>>), f, None) :
        lim \in Limits, off \in Offsets,
        f \in {g \in Filters : g.search_text = None} }
    \cup
    { MakeArguments(None, None, None, f, None) : f \in Filters }

Upstreams ==
    [ n : {k * batch_size + d : k \in 0..MaxBatches, d \in {0, 1}},
      layout : {"cycle", "sparse"} ]

InitWith(us, as, n) ==
    /\ upstream \in us
    /\ args \in [1..n -> as]
    /\ pc = [i \in 1..n |-> "init"]
    /\ path = [i \in 1..n |-> "none"]
    /\ current_offset = [i \in 1..n |-> 0]
    /\ expenses = [i \in 1..n |-> <<>>]
    /\ calls = [i \in 1..n |-> <<>>]
    /\ result = [i \in 1..n |-> None]
    /\ response = [i \in 1..n |-> None]
    /\ http = NoHttp

Init == InitWith(Upstreams, Arguments, 1) /\ frontend = "main"

Spec == Init /\ [][Next]_vars

\* The names the projection has an arm for, in the order of the arms.
ProjectedFields ==
    << "id", "description", "cost", "currency_code", "date", "category",
       "payment", "group_id", "friendship_id", "details", "users",
       "repayments", "created_at", "created_by", "updated_at", "updated_by",
       "deleted_at", "deleted_by", "receipt", "comments_count",
       "transaction_confirmed", "transaction_id", "transaction_method",
       "transaction_status", "repeats", "repeat_interval", "next_repeat",
       "email_reminder", "email_reminder_in_advance", "expense_bundle_id" >>

\* Names a caller may ask for: recognised ones whose value is always there,
\* may be absent, the two deletion fields, and names the projection does not
\* know (field names are matched exactly, so "ID" is one of them).
ProjectionFieldNames ==
    {"id", "group_id", "details", "updated_by", "deleted_at", "deleted_by",
     "notes", "ID"}

\* Field lists of up to two of these names, in any order and with
\* repetition, and the list of every recognised name with an unknown one.
ProjectionFieldLists ==
    {Some(<<>>), Some(ProjectedFields \o <<"notes">>)}
    \cup {Some(<<f>>) : f \in ProjectionFieldNames}
    \cup {Some(<<f, g>>) : f \in ProjectionFieldNames, g \in ProjectionFieldNames}

NoFilter == [search_text |-> None, search_fields |-> None, category_ids |-> None]

ProjectionArguments ==
    { MakeArguments(lim, None, fl, NoFilter, m) :
        lim \in {None, Some(1)}, fl \in ProjectionFieldLists,
        m \in {None, Some("include")} }

\* Upstreams that hold every kind of record once, or nothing.
ProjectionUpstreams == [n : {0, 16}, layout : {"cycle"}]

InitProjection ==
    InitWith(ProjectionUpstreams, ProjectionArguments, 1) /\ frontend = "main"

\* list_expenses with the field lists of the projection.
SpecProjection == InitProjection /\ [][Next]_vars

\* The upstreams of the worked examples: 250 records that pass every check,
\* three batches of 100 of which records 5, 150 and 280 alone are in
\* category 1 (and alone are not deleted), and exactly one batch.
ScenarioUpstreams ==
    { [n |-> 250, layout |-> "all"],
      [n |-> 300, layout |-> "sparse"],
      [n |-> 100, layout |-> "all"] }

ScenarioFilters ==
    [search_text : {None}, search_fields : {None},
     category_ids : {None, Some(<<1>>), Some(<<2>>)}]

ScenarioArguments ==
    { MakeArguments(lim, off, fl, f, m) :
        lim \in {None, Some(10)}, off \in {None, Some(0)},
        fl \in {Some(<<"id">>), Some(<<"id", "description">>)},
        f \in ScenarioFilters,
        m \in {None, Some("exclude"), Some("include")} }

InitScenarios ==
    InitWith(ScenarioUpstreams, ScenarioArguments, 1) /\ frontend = "main"

\* list_expenses against the upstreams of the worked examples.
SpecScenarios == InitScenarios /\ [][Next]_vars

\* Two invocations in flight at once (the handler is shared behind an Arc
\* and the HTTP front end serves requests concurrently).  Their arguments
\* cover the three fetch paths, runs of one to three requests, and a call
\* that does not deserialize.
ConcurrentArguments ==
    { MakeArguments(None, None, Some(<<"id">>),
          [search_text |-> Some(StrFoOd), search_fields |-> None, category_ids |-> None],
          None),
      MakeArguments(Some(2), Some(1), Some(<<"id">>),
          [search_text |-> None, search_fields |-> None, category_ids |-> Some(<<1>>)],
          Some("include")),
      MakeArguments(Some(1), None, Some(<<"id">>), NoFilter, None),
      MakeArguments(Some(batch_size + 1), None, Some(<<"id">>), NoFilter, Some("only")),
      MakeArguments(None, Some(1), Some(<<"id">>), NoFilter, Some("include")),
      MakeArguments(None, None, None, NoFilter, None) }

ConcurrentUpstreams == [n : {0, 100, 101}, layout : {"cycle"}]

InitConcurrent ==
    InitWith(ConcurrentUpstreams, ConcurrentArguments, 2) /\ frontend = "main_http"

\* Two concurrent invocations of list_expenses.
SpecConcurrent == InitConcurrent /\ [][Next]_vars

\* Scope filters: each of group, friend, dated-after and dated-before given
\* or not.
Scopes ==
    [ group_id : {None, Some(7)}, friend_id : {None, Some(3)},
      dated_after : {None, Some("2024-01-01")},
      dated_before : {None, Some("2024-12-31")} ]

ScopedArguments ==
    { [a EXCEPT !.group_id = sc.group_id, !.friend_id = sc.friend_id,
                !.dated_after = sc.dated_after, !.dated_before = sc.dated_before] :
        a \in ConcurrentArguments, sc \in Scopes }

InitScopes ==
    InitWith(ConcurrentUpstreams, ScopedArguments, 1) /\ frontend = "main"

\* list_expenses with every combination of scope filters.
SpecScopes == InitScopes /\ [][Next]_vars

\* Search-field lists that name no recognised field: the names are matched
\* exactly, so a capitalised name is not recognised either.
UnrecognisedSearchFields ==
    {Some(<<>>), Some(<<"notes">>), Some(<<"Description", "notes">>)}

SearchFieldsArguments ==
    { MakeArguments(lim, off, Some(<<"id", "deleted_at", "deleted_by">>),
                    [search_text |-> Some(StrFoOd), search_fields |-> sf,
                     category_ids |-> c], m) :
        lim \in Limits, off \in Offsets, sf \in UnrecognisedSearchFields,
        c \in {None, Some(<<1>>)}, m \in {None, Some("include")} }

InitSearchFields ==
    InitWith(Upstreams, SearchFieldsArguments, 1) /\ frontend = "main"

\* list_expenses with a search text and no recognised search field.
SpecSearchFields == InitSearchFields /\ [][Next]_vars

\* Calls of get_expense: an id the upstream has or has not, a field list.
GetExpenseArguments ==
    [ name : {"get_expense"}, expense_id : 1..17,
      fields : ProjectionFieldLists \cup {None} ]

InitTools ==
    /\ InitWith(ProjectionUpstreams, ProjectionArguments \cup GetExpenseArguments, 1)
    /\ frontend = "main"

\* One call of list_expenses or of get_expense.
SpecTools == InitTools /\ [][NextTools]_vars

\* The configurations of the server: the defaults of main, and a second
\* one whose client secret holds a ':'.
AppStates ==
    { [auth_token |-> <<100, 101, 102, 97, 117, 108, 116, 45, 116, 111, 107, 101, 110>>,
       client_id |-> <<115, 112, 108, 105, 116, 119, 105, 115, 101, 45, 109, 99, 112, 45, 99, 108, 105, 101, 110, 116>>,
       client_secret |-> <<115, 51, 99, 114, 101, 116>>],
      [auth_token |-> <<116, 48, 107, 101, 110>>,
       client_id |-> <<105, 100>>,
       client_secret |-> <<115, 58, 99>>] }

\* Bearer default-token
BearerDefaultToken ==
    <<66, 101, 97, 114, 101, 114, 32, 100, 101, 102, 97, 117, 108, 116, 45, 116, 111, 107, 101, 110>>

\* Bearer t0ken
BearerOtherToken ==
    <<66, 101, 97, 114, 101, 114, 32, 116, 48, 107, 101, 110>>

\* Bearer default-tokenx
BearerLongerToken ==
    <<66, 101, 97, 114, 101, 114, 32, 100, 101, 102, 97, 117, 108, 116, 45, 116, 111, 107, 101, 110, 120>>

\* bearer default-token
BearerLowerCase ==
    <<98, 101, 97, 114, 101, 114, 32, 100, 101, 102, 97, 117, 108, 116, 45, 116, 111, 107, 101, 110>>

\* default-token
TokenWithoutScheme ==
    <<100, 101, 102, 97, 117, 108, 116, 45, 116, 111, 107, 101, 110>>

\* Bearer  with no token
BearerEmpty ==
    <<66, 101, 97, 114, 101, 114, 32>>

\* Bearer default-token followed by the byte 233
BearerNotAscii ==
    <<66, 101, 97, 114, 101, 114, 32, 100, 101, 102, 97, 117, 108, 116, 45, 116, 111, 107, 101, 110, 233>>

\* Bearer base64(splitwise-mcp-client:s3cret)
BearerOfBasic ==
    <<66, 101, 97, 114, 101, 114, 32, 99, 51, 66, 115, 97, 88, 82, 51, 97, 88, 78, 108, 76, 87, 49, 106, 99, 67, 49, 106, 98, 71, 108, 108, 98, 110, 81, 54, 99, 122, 78, 106, 99, 109, 86, 48>>

\* Basic base64(splitwise-mcp-client:s3cret)
BasicDefault ==
    <<66, 97, 115, 105, 99, 32, 99, 51, 66, 115, 97, 88, 82, 51, 97, 88, 78, 108, 76, 87, 49, 106, 99, 67, 49, 106, 98, 71, 108, 108, 98, 110, 81, 54, 99, 122, 78, 106, 99, 109, 86, 48>>

\* Basic base64(id:s:c)
BasicOther ==
    <<66, 97, 115, 105, 99, 32, 97, 87, 81, 54, 99, 122, 112, 106>>

\* Basic base64(id:s)
BasicOtherPrefix ==
    <<66, 97, 115, 105, 99, 32, 97, 87, 81, 54, 99, 119, 61, 61>>

\* Basic base64(splitwise-mcp-client:wrong)
BasicWrongSecret ==
    <<66, 97, 115, 105, 99, 32, 99, 51, 66, 115, 97, 88, 82, 51, 97, 88, 78, 108, 76, 87, 49, 106, 99, 67, 49, 106, 98, 71, 108, 108, 98, 110, 81, 54, 100, 51, 74, 118, 98, 109, 99, 61>>

\* Basic base64(splitwise-mcp-client)
BasicNoSecret ==
    <<66, 97, 115, 105, 99, 32, 99, 51, 66, 115, 97, 88, 82, 51, 97, 88, 78, 108, 76, 87, 49, 106, 99, 67, 49, 106, 98, 71, 108, 108, 98, 110, 81, 61>>

\* Basic base64(splitwise-mcp-client:s3cret:s3cret)
BasicThreeParts ==
    <<66, 97, 115, 105, 99, 32, 99, 51, 66, 115, 97, 88, 82, 51, 97, 88, 78, 108, 76, 87, 49, 106, 99, 67, 49, 106, 98, 71, 108, 108, 98, 110, 81, 54, 99, 122, 78, 106, 99, 109, 86, 48, 79, 110, 77, 122, 89, 51, 74, 108, 100, 65, 61, 61>>

\* Basic splitwise-mcp-client:s3cret, not encoded
BasicNotEncoded ==
    <<66, 97, 115, 105, 99, 32, 115, 112, 108, 105, 116, 119, 105, 115, 101, 45, 109, 99, 112, 45, 99, 108, 105, 101, 110, 116, 58, 115, 51, 99, 114, 101, 116>>

\* Basic base64(splitwise-mcp-client:wrong) without its padding
BasicNoPadding ==
    <<66, 97, 115, 105, 99, 32, 99, 51, 66, 115, 97, 88, 82, 51, 97, 88, 78, 108, 76, 87, 49, 106, 99, 67, 49, 106, 98, 71, 108, 108, 98, 110, 81, 54, 100, 51, 74, 118, 98, 109, 99>>

\* Basic default-token
BasicOfToken ==
    <<66, 97, 115, 105, 99, 32, 100, 101, 102, 97, 117, 108, 116, 45, 116, 111, 107, 101, 110>>

\* Basic base64 of the byte 255 followed by :s3cret
BasicNotUtf8 ==
    <<66, 97, 115, 105, 99, 32, 47, 122, 112, 122, 77, 50, 78, 121, 90, 88, 81, 61>>

AuthorizationHeaders ==
    {None} \cup { Some(v) : v \in {BearerDefaultToken,
                           BearerOtherToken,
                           BearerLongerToken,
                           BearerLowerCase,
                           TokenWithoutScheme,
                           BearerEmpty,
                           BearerNotAscii,
                           BearerOfBasic,
                           BasicDefault,
                           BasicOther,
                           BasicOtherPrefix,
                           BasicWrongSecret,
                           BasicNoSecret,
                           BasicThreeParts,
                           BasicNotEncoded,
                           BasicNoPadding,
                           BasicOfToken,
                           BasicNotUtf8} }

\* The bodies of the requests: two the Json extractor rejects, and JSON
\* values with and without a method, params and a tool name.  The
\* arguments of a tools/call are args[i].
HttpBodies ==
    [ kind : {"not_json", "no_content_type"}, id : {1},
      method : {None}, params : {None} ]
    \cup
    [ kind : {"json"}, id : {1},
      method : {None, Some("initialize"), Some("tools/list"), Some("ping")},
      params : {None} ]
    \cup
    [ kind : {"json"}, id : {1}, method : {Some("tools/call")},
      params : {None, Some([name |-> None]), Some([name |-> Some("list_expenses")])} ]

HttpRequests == [ headers : [authorization : AuthorizationHeaders], body : HttpBodies ]

\* A request has arrived at /mcp; no handler runs yet.
InitHttp ==
    /\ upstream \in ConcurrentUpstreams
    /\ args \in [1..1 -> ConcurrentArguments]
    /\ pc = [i \in 1..1 |-> "idle"]
    /\ path = [i \in 1..1 |-> "none"]
    /\ current_offset = [i \in 1..1 |-> 0]
    /\ expenses = [i \in 1..1 |-> <<>>]
    /\ calls = [i \in 1..1 |-> <<>>]
    /\ result = [i \in 1..1 |-> None]
    /\ response = [i \in 1..1 |-> None]
    /\ frontend = "main_http"
    /\ http \in [ state : AppStates, request : [1..1 -> HttpRequests],
                  stage : {[i \in 1..1 |-> "received"]},
                  outcome : {[i \in 1..1 |-> None]} ]

\* The Json extractor rejects the body: the handler does not run.
HttpReject(i) ==
    /\ http.stage[i] = "received"
    /\ ~ json_extract(http.request[i].body)
    /\ \E status \in JsonRejectionStatuses :
          http' = [http EXCEPT !.stage[i] = "rejected",
                               !.outcome[i] = Some(HandlerOutcome(Some(status), FALSE, None, None))]
    /\ UNCHANGED <<upstream, args, pc, path, current_offset, expenses, calls,
                   result, frontend, response>>

\* The extractors succeed and mcp_handler runs to its return or to the await
\* of handle_tool_call, which then starts.
HttpHandle(i) ==
    /\ http.stage[i] = "received"
    /\ json_extract(http.request[i].body)
    /\ LET o == mcp_handler(http.state, http.request[i])
       IN  /\ http' = [http EXCEPT !.stage[i] = IF o.status = None THEN "tool" ELSE "done",
                                   !.outcome[i] = Some(o)]
           /\ pc' = IF o.status = None THEN [pc EXCEPT ![i] = "init"] ELSE pc
    /\ UNCHANGED <<upstream, args, path, current_offset, expenses, calls,
                   result, frontend, response>>

NextHttp ==
    \E i \in DOMAIN pc :
        \/ HttpReject(i) \/ HttpHandle(i)
        \/ Start(i) \/ FetchOk(i) \/ FetchFail(i)

\* One request to /mcp of the HTTP transport.
SpecHttp == InitHttp /\ [][NextHttp]_vars

InitFrontends ==
    InitWith(ConcurrentUpstreams, ConcurrentArguments, 1) /\ frontend \in Frontends

\* One tool call through each of the three front ends.
SpecFrontends == InitFrontends /\ [][Next]_vars

----------------------------------------------------------------------------
(* Vocabulary of the properties *)

Invocations == DOMAIN pc

Returned(i) == pc[i] = "done"

ReturnedOk(i) == pc[i] = "done" /\ result[i][1].ok

ReturnedErr(i) == pc[i] = "done" /\ ~ result[i][1].ok

\* The starting offset of the query, 0 when none is given.
StartOffset(i) == unwrap_or(args[i].offset, 0)

\* The query gives a result-count cap C >= 0.
HasCap(i) == is_some(args[i].limit) /\ args[i].limit[1] >= 0

Cap(i) == args[i].limit[1]

\* ceil(x / batch_size) for an integer x of either sign.
CeilBatches(x) == -((-x) \div batch_size)

----------------------------------------------------------------------------
(* C1  Cap respected: a list_expenses query with a result-count cap        *)
(* C >= 0 returns at most C records, whatever its other arguments and      *)
(* whichever fetch path serves it.                                         *)

C1_CapRespected ==
    \A i \in Invocations :
        (ReturnedOk(i) /\ HasCap(i)) =>
            /\ Len(result[i][1].value) <= Cap(i)
            /\ Len(expenses[i]) <= Cap(i)

\* A capped run of the search/category loop that needed two batches to fill
\* its cap, one of the deleted-only loop and one of the single-call path
\* each return exactly as many records as the cap allows;
\* TLC reaches the first (the others are C1_WitnessDeleted, C1_WitnessSimple).
C1_Witness ==
    \E i \in Invocations :
        /\ ReturnedOk(i) /\ HasCap(i) /\ path[i] = "search"
        /\ Cap(i) = 2 /\ Len(result[i][1].value) = 2 /\ Len(calls[i]) = 2

C1_WitnessDeleted ==
    \E i \in Invocations :
        /\ ReturnedOk(i) /\ HasCap(i) /\ path[i] = "deleted"
        /\ Cap(i) = batch_size + 1 /\ Len(result[i][1].value) = Cap(i)

C1_WitnessSimple ==
    \E i \in Invocations :
        /\ ReturnedOk(i) /\ HasCap(i) /\ path[i] = "simple"
        /\ Cap(i) = 2 /\ Len(result[i][1].value) = 2 /\ upstream.n > 2

----------------------------------------------------------------------------
(* C2  Termination bound.  As claimed: for a starting offset >= 0 and an   *)
(* upstream of N records a run issues at most ceil((N - offset)/100) + 1   *)
(* requests.  That fails for a starting offset of N + 100 or more, where   *)
(* the claimed bound is 0 or less and the run still issues its first       *)
(* request.  As amended: at most ceil(max(N - offset, 0)/100) + 1.         *)

C2_ClaimedBound(i) == CeilBatches(upstream.n - StartOffset(i)) + 1

C2_AmendedBound(i) == CeilBatches(Max(upstream.n - StartOffset(i), 0)) + 1

\* The guard of Start(i) or of FetchOk(i) holds: the run is not stuck.
CanStep(i) == pc[i] = "init" \/ (pc[i] = "await" /\ calls[i] # <<>>)

\* The claim as stated.
C2_Original ==
    \A i \in Invocations :
        StartOffset(i) >= 0 => Len(calls[i]) <= C2_ClaimedBound(i)

\* The amended claim: the number of requests stays within the amended bound,
\* a run that has not returned can always take its next step, and each of
\* its steps either returns or issues exactly one more request; so the run
\* returns after at most bound + 1 steps.
C2_TerminationBound ==
    /\ [](\A i \in Invocations :
            StartOffset(i) >= 0 =>
                /\ Len(calls[i]) <= C2_AmendedBound(i)
                /\ (~ Returned(i) => CanStep(i)))
    /\ [][\A i \in Invocations :
            (pc'[i] # pc[i] \/ calls'[i] # calls[i]) =>
                \/ Returned(i)' /\ calls'[i] = calls[i]
                \/ ~ Returned(i)' /\ Len(calls'[i]) = Len(calls[i]) + 1]_vars

\* A run that never satisfied its cap and ran the upstream dry: it used the
\* whole bound, and the last request came back empty.
C2_Witness ==
    \E i \in Invocations :
        /\ ReturnedOk(i) /\ path[i] = "search" /\ StartOffset(i) = 1
        /\ upstream.n = 2 * batch_size + 1
        /\ Len(calls[i]) = 3 /\ Len(calls[i]) = C2_AmendedBound(i)
        /\ get_expenses(upstream, calls[i][3]) = <<>>

----------------------------------------------------------------------------
(* The Unsupported-Filter Evaluator as the specification describes it:     *)
(* three independent checks, each active only when its parameter is given. *)

PassesDeletion(a, e) ==
    LET mode == unwrap_or(a.include_deleted, "exclude")
    IN  CASE mode = "include" -> TRUE
          [] mode = "only"    -> e.deleted_at # None
          [] OTHER            -> e.deleted_at = None

PassesCategory(a, e) ==
    a.category_ids = None \/ e.category.id \in Range(a.category_ids[1])

\* The fields the text search may look at.
RequestedSearchFields(a) ==
    IF a.search_fields = None THEN {"description", "details", "category"}
    ELSE Range(a.search_fields[1]) \cap {"description", "details", "category"}

\* The textual content of a search field of a record, None when it has none.
FieldText(f, e) ==
    CASE f = "description" -> Some(e.description)
      [] f = "details"     -> e.details
      [] f = "category"    -> Some(e.category.name)

\* needle occurs in hay at offset k.
OccursAt(hay, needle, k) ==
    /\ k + Len(needle) <= Len(hay)
    /\ \A j \in 1..Len(needle) : hay[k + j] = needle[j]

IsSubstring(needle, hay) == \E k \in 0..Len(hay) : OccursAt(hay, needle, k)

SearchHit(a, e) ==
    \E f \in RequestedSearchFields(a) :
        /\ FieldText(f, e) # None
        /\ IsSubstring(to_lowercase(a.search_text[1]), to_lowercase(FieldText(f, e)[1]))

PassesSearch(a, e) == a.search_text = None \/ SearchHit(a, e)

PassesAll(a, e) == PassesDeletion(a, e) /\ PassesCategory(a, e) /\ PassesSearch(a, e)

\* The requests of run i that have been answered with a page.
Answered(i) ==
    IF ReturnedOk(i) THEN Len(calls[i]) ELSE Max(0, Len(calls[i]) - 1)

\* The upstream positions those pages held.
Covered(i) ==
    UNION {Range(get_expenses(upstream, calls[i][k])) : k \in 1..Answered(i)}

\* The cap is given and the accumulator has reached it.
CapReached(i) == HasCap(i) /\ Len(expenses[i]) >= Cap(i)

InLoop(i) == path[i] \in {"search", "deleted"}

----------------------------------------------------------------------------
(* C3  Exhaustion without cap: with no cap, the run returns exactly the    *)
(* upstream records at or after the starting offset that pass the filter   *)
(* evaluator, each once and in upstream order, for every mode and with or  *)
(* without search text or category set.                                    *)
(* The code serves a query without cap, search text and category set on    *)
(* the single-call path also when the mode is not include: it returns what *)
(* one request without limit yields, not the whole upstream.               *)

C3_Expected(i) ==
    LET a == args[i]
        ok == [k \in Kinds |-> PassesAll(a, KindRecord[k])]
        from == StartOffset(i)
        rest == [k \in 1..Max(0, upstream.n - from) |-> from + k]
    IN  SelectSeq(rest, LAMBDA x : ok[KindAt(upstream.layout, x)])

\* The claim as stated.
C3_ExhaustionWithoutCap ==
    \A i \in Invocations :
        (ReturnedOk(i) /\ args[i].limit = None /\ StartOffset(i) >= 0) =>
            expenses[i] = C3_Expected(i)

----------------------------------------------------------------------------
(* C4  Malformed queries - a negative cap, a negative starting offset or   *)
(* an empty output field list - fail with an error before any request is   *)
(* issued.                                                                 *)
(* The code checks none of the three: the arguments deserialize, requests  *)
(* are issued and the run can return successfully.                         *)

Malformed(a) ==
    \/ a.limit # None /\ a.limit[1] < 0
    \/ a.offset # None /\ a.offset[1] < 0
    \/ a.fields = Some(<<>>)

\* The claim as stated.
C4_MalformedRejected ==
    \A i \in Invocations :
        Malformed(args[i]) =>
            /\ calls[i] = <<>>
            /\ Returned(i) => ~ result[i][1].ok

----------------------------------------------------------------------------
(* C5  Filter composition: in the batch loops a record is accepted iff it  *)
(* passes every active check (deletion visibility, category membership,    *)
(* text search); an inactive check has no effect, a failed active check    *)
(* rejects whatever the others say.                                        *)
(* Stated on the accumulator: it holds only records that pass all active   *)
(* checks, and, as long as the cap has not cut the appending short, every  *)
(* record of the pages fetched so far that passes them.                    *)

C5_FilterComposition ==
    \A i \in Invocations :
        InLoop(i) =>
            LET accepted == {k \in Kinds : PassesAll(args[i], KindRecord[k])}
                acc == expenses[i]
            IN  /\ \A j \in DOMAIN acc : KindAt(upstream.layout, acc[j]) \in accepted
                /\ ~ CapReached(i) =>
                       \A c \in 1..Answered(i) :
                           LET page == get_expenses(upstream, calls[i][c])
                           IN  \A j \in DOMAIN page :
                                   KindAt(upstream.layout, page[j]) \in accepted
                                       => \E jj \in DOMAIN acc : acc[jj] = page[j]

\* A run with all three checks active has gone through a page that held
\* records failing each single check, and kept some record.
C5_Witness ==
    \E i \in Invocations :
        LET a == args[i] IN
        /\ ReturnedOk(i) /\ path[i] = "search" /\ ~ CapReached(i)
        /\ a.search_text # None /\ a.category_ids # None /\ a.include_deleted = Some("only")
        /\ expenses[i] # <<>>
        /\ \E x \in Covered(i) : LET e == ExpenseAt(upstream, x) IN
               ~ PassesDeletion(a, e) /\ PassesCategory(a, e) /\ PassesSearch(a, e)
        /\ \E x \in Covered(i) : LET e == ExpenseAt(upstream, x) IN
               PassesDeletion(a, e) /\ ~ PassesCategory(a, e) /\ PassesSearch(a, e)
        /\ \E x \in Covered(i) : LET e == ExpenseAt(upstream, x) IN
               PassesDeletion(a, e) /\ PassesCategory(a, e) /\ ~ PassesSearch(a, e)

----------------------------------------------------------------------------
(* C6  Deletion visibility on every fetch path: the result for mode        *)
(* exclude - also an omitted or unrecognised mode - holds no record with a *)
(* deletion marker; the result for mode only holds only records with one;  *)
(* mode include never rejects a record for its deletion status: every      *)
(* fetched record that passes the other checks is returned unless the cap  *)
(* cut the appending short.                                                *)

DeletedKinds == {k \in Kinds : KindRecord[k].deleted_at # None}

C6_DeletionVisibility ==
    \A i \in Invocations :
        ReturnedOk(i) =>
            LET a == args[i]
                acc == expenses[i]
                others == {k \in Kinds : PassesCategory(a, KindRecord[k])
                                         /\ PassesSearch(a, KindRecord[k])}
            IN  /\ a.include_deleted \notin {Some("include"), Some("only")} =>
                    \A j \in DOMAIN acc : KindAt(upstream.layout, acc[j]) \notin DeletedKinds
                /\ a.include_deleted = Some("only") =>
                    \A j \in DOMAIN acc : KindAt(upstream.layout, acc[j]) \in DeletedKinds
                /\ (a.include_deleted = Some("include") /\ ~ CapReached(i)) =>
                    \A c \in 1..Answered(i) :
                        LET page == get_expenses(upstream, calls[i][c])
                        IN  \A j \in DOMAIN page :
                                KindAt(upstream.layout, page[j]) \in others
                                    => \E jj \in DOMAIN acc : acc[jj] = page[j]

\* A run with an unrecognised mode on the search/category path fetched a
\* page holding deleted and active records and returned some of the active.
C6_Witness ==
    \E i \in Invocations :
        /\ ReturnedOk(i) /\ path[i] = "search"
        /\ args[i].include_deleted = Some("all")
        /\ expenses[i] # <<>>
        /\ \E x \in Covered(i) : KindAt(upstream.layout, x) \in DeletedKinds

\* The same on the other two paths, and for mode only.
C6_WitnessSimpleOnly ==
    \E i \in Invocations :
        /\ ReturnedOk(i) /\ path[i] = "simple"
        /\ args[i].include_deleted = Some("only")
        /\ expenses[i] # <<>>
        /\ \E x \in Covered(i) : KindAt(upstream.layout, x) \notin DeletedKinds

C6_WitnessDeletedLoop ==
    \E i \in Invocations :
        /\ ReturnedOk(i) /\ path[i] = "deleted"
        /\ args[i].include_deleted = None
        /\ expenses[i] # <<>>
        /\ \E x \in Covered(i) : KindAt(upstream.layout, x) \in DeletedKinds

----------------------------------------------------------------------------
(* C7  Upstream failure is fatal and not retried: when a request of a run  *)
(* fails, the run returns an error at once - it issues no further request, *)
(* neither for the same offset nor for a later one - and the error carries *)
(* none of the records accumulated from earlier batches.  A run that has   *)
(* returned does nothing more.                                             *)

\* The errors a failed request may turn into: the upstream's own, or the
\* one that wraps it with the offset of the batch.
IsFetchError(e) ==
    \/ e = UpstreamError
    \/ \E off \in {current_offset[i] : i \in Invocations} : e = annotate(off, UpstreamError)

C7_FailureIsFatal ==
    [][\A i \in Invocations :
         /\ FetchFail(i) =>
              /\ pc'[i] = "done"
              /\ calls'[i] = calls[i]
              /\ result'[i] # None
              /\ ~ result'[i][1].ok
              /\ DOMAIN result'[i][1] = {"ok", "error"}
              /\ IsFetchError(result'[i][1].error)
         /\ Returned(i) =>
              /\ pc'[i] = pc[i] /\ calls'[i] = calls[i] /\ result'[i] = result[i]]_vars

\* A run failed on its second request, after a first batch from which it had
\* kept records.
C7_Witness ==
    \E i \in Invocations :
        /\ ReturnedErr(i) /\ Len(calls[i]) = 2 /\ expenses[i] # <<>>
        /\ IsFetchError(result[i][1].error)

----------------------------------------------------------------------------
(* C8  Every upstream failure of a batched run reaches the caller          *)
(* annotated with the offset of the failing request, in the                *)
(* search/category loop and equally in the deleted-only loop.              *)
(* The deleted-only loop propagates the upstream's error with a bare ?:    *)
(* the error carries no offset.                                            *)

\* The claim as stated.
C8_FailureCarriesOffset ==
    \A i \in Invocations :
        (ReturnedErr(i) /\ InLoop(i) /\ calls[i] # <<>>) =>
            /\ "offset" \in DOMAIN result[i][1].error
            /\ Some(result[i][1].error.offset) = calls[i][Len(calls[i])].offset

----------------------------------------------------------------------------
(* C9  Text search is a case-insensitive substring test over the requested *)
(* search fields: with a search text, a record passes the search check iff *)
(* the lower-cased text occurs in the lower-cased content of a requested   *)
(* field among description, details and category name; a record without    *)
(* details never matches through details.  "food" matches the description  *)
(* "Whole Foods run".                                                      *)

StrFood == <<"f","o","o","d">>

C9_TextSearch ==
    \A i \in Invocations :
        (path[i] = "search" /\ args[i].search_text # None) =>
            LET a == args[i]
                acc == expenses[i]
                hits == {k \in Kinds : SearchHit(a, KindRecord[k])}
                rest == {k \in Kinds : PassesDeletion(a, KindRecord[k])
                                       /\ PassesCategory(a, KindRecord[k])}
            IN  /\ \A j \in DOMAIN acc : KindAt(upstream.layout, acc[j]) \in hits
                /\ ~ CapReached(i) =>
                       \A c \in 1..Answered(i) :
                           LET page == get_expenses(upstream, calls[i][c])
                           IN  \A j \in DOMAIN page :
                                   KindAt(upstream.layout, page[j]) \in (hits \cap rest)
                                       => \E jj \in DOMAIN acc : acc[jj] = page[j]
                /\ (to_lowercase(a.search_text[1]) = StrFood
                        /\ "description" \in RequestedSearchFields(a)) =>
                       \A k \in Kinds :
                           KindRecord[k].description = StrWholeFoodsRun => k \in hits

\* A search for "FoOd" in the description alone kept a record described as
\* "Whole Foods run" and passed over one whose details, but not whose
\* description, hold the text.
C9_Witness ==
    \E i \in Invocations :
        /\ ReturnedOk(i) /\ path[i] = "search" /\ ~ CapReached(i)
        /\ args[i].search_text = Some(StrFoOd)
        /\ args[i].search_fields = Some(<<"description">>)
        /\ \E j \in DOMAIN expenses[i] :
               ExpenseAt(upstream, expenses[i][j]).description = StrWholeFoodsRun
        /\ \E x \in Covered(i) :
               /\ ExpenseAt(upstream, x).details = Some(StrFoodCourt)
               /\ PassesDeletion(args[i], ExpenseAt(upstream, x))
               /\ x \notin Range(expenses[i])

----------------------------------------------------------------------------
(* C10  Projection null-suppression: when deleted_at (deleted_by) is       *)
(* requested, the projected map has that key iff the record carries the    *)
(* deletion timestamp (deletion actor); with id requested as well, the map *)
(* of a record that is not deleted has the key id and no key deleted_at,   *)
(* the map of a deleted record has both.                                   *)

Requested(i) == Range(args[i].fields[1])

C10_NullSuppression ==
    \A i \in Invocations :
        ReturnedOk(i) =>
            \A j \in DOMAIN expenses[i] :
                LET e == ExpenseAt(upstream, expenses[i][j])
                    m == result[i][1].value[j]
                IN  /\ "deleted_at" \in Requested(i) =>
                        /\ ("deleted_at" \in DOMAIN m) <=> (e.deleted_at # None)
                        /\ ("deleted_at" \in DOMAIN m) => m["deleted_at"] = json(e.deleted_at[1])
                    /\ "deleted_by" \in Requested(i) =>
                        /\ ("deleted_by" \in DOMAIN m) <=> (e.deleted_by # None)
                        /\ ("deleted_by" \in DOMAIN m) => m["deleted_by"] = json(e.deleted_by[1])
                    /\ "id" \in Requested(i) =>
                        /\ "id" \in DOMAIN m
                        /\ m["id"] = json(e.id)

\* One result holds the map of an active record (key id alone), of a deleted
\* record with timestamp and actor, and of one with the timestamp alone.
C10_Witness ==
    \E i \in Invocations :
        /\ ReturnedOk(i)
        /\ {"id", "deleted_at", "deleted_by"} \subseteq Requested(i)
        /\ \E j \in DOMAIN expenses[i] :
               /\ ExpenseAt(upstream, expenses[i][j]).deleted_at = None
               /\ DOMAIN result[i][1].value[j] = {"id"}
        /\ \E j \in DOMAIN expenses[i] :
               /\ ExpenseAt(upstream, expenses[i][j]).deleted_at # None
               /\ DOMAIN result[i][1].value[j] = {"id", "deleted_at", "deleted_by"}
        /\ \E j \in DOMAIN expenses[i] :
               /\ ExpenseAt(upstream, expenses[i][j]).deleted_at # None
               /\ DOMAIN result[i][1].value[j] = {"id", "deleted_at"}

----------------------------------------------------------------------------
(* C11  Projection key set: for any record and any requested field list,   *)
(* the projected map has a key for every requested recognised field other  *)
(* than deleted_at / deleted_by - written as null when the record has no   *)
(* value, e.g. group_id -, no key for an unrecognised requested name,      *)
(* which causes no error, and no key that was not requested.               *)

RecognisedFields == Range(ProjectedFields)

\* The run failed for one of the two reasons list_expenses can fail for:
\* the arguments lack the field list, or a request failed.
FailedForKnownReason(i) ==
    \/ args[i].fields = None /\ result[i][1].error = SerdeError
    \/ calls[i] # <<>> /\ IsFetchError(result[i][1].error)

C11_ProjectionKeySet ==
    \A i \in Invocations :
        /\ ReturnedErr(i) => FailedForKnownReason(i)
        /\ ReturnedOk(i) =>
            \A j \in DOMAIN expenses[i] :
                LET e == ExpenseAt(upstream, expenses[i][j])
                    m == result[i][1].value[j]
                    always == (Requested(i) \cap RecognisedFields)
                                  \ {"deleted_at", "deleted_by"}
                IN  /\ always \subseteq DOMAIN m
                    /\ DOMAIN m \subseteq Requested(i) \cap RecognisedFields
                    /\ \A f \in {"group_id", "details", "updated_by"} \cap Requested(i) :
                           m[f] = IF e[f] = None THEN json_null ELSE json(e[f][1])

\* A result for the fields group_id and notes holds the map of a record
\* without group: the key group_id with null and nothing else; and a result
\* for every recognised name and notes holds a map with all the keys but
\* the two deletion fields.
C11_Witness ==
    \E i \in Invocations :
        /\ ReturnedOk(i)
        /\ Requested(i) = {"group_id", "notes"}
        /\ \E j \in DOMAIN expenses[i] :
               /\ ExpenseAt(upstream, expenses[i][j]).group_id = None
               /\ result[i][1].value[j] = [k \in {"group_id"} |-> json_null]

C11_WitnessAll ==
    \E i \in Invocations :
        /\ ReturnedOk(i)
        /\ Requested(i) = RecognisedFields \cup {"notes"}
        /\ \E j \in DOMAIN expenses[i] :
               DOMAIN result[i][1].value[j]
                   = RecognisedFields \ {"deleted_at", "deleted_by"}

----------------------------------------------------------------------------
(* C12  Scenario: against 250 upstream records (ids 1..250, all of which   *)
(* pass), a query without search text and category set, with cap 10 and    *)
(* offset 0 and the deletion mode left at its default, issues exactly one  *)
(* request, with limit 100 and offset 0, and returns records 1..10 in that *)
(* order.                                                                  *)

C12_Query(i) ==
    /\ upstream = [n |-> 250, layout |-> "all"]
    /\ args[i].search_text = None /\ args[i].category_ids = None
    /\ args[i].limit = Some(10) /\ StartOffset(i) = 0
    /\ args[i].include_deleted \in {None, Some("exclude")}

----------------------------------------------------------------------------
(* C13  Scenario: against 3 batches of 100 records of which exactly        *)
(* records 5, 150 and 280 match an active category filter, a query without *)
(* cap returns the 3 matching records in upstream order.  As claimed it    *)
(* issues 3 requests; the loop ends only on an empty batch, so it issues a *)
(* fourth, for offset 300, which comes back empty.  As amended: 4 requests.*)

C13_Query(i) ==
    /\ upstream = [n |-> 300, layout |-> "sparse"]
    /\ args[i].search_text = None /\ args[i].category_ids = Some(<<1>>)
    /\ args[i].limit = None /\ StartOffset(i) = 0

\* The claim as stated.
C13_Original ==
    \A i \in Invocations :
        (C13_Query(i) /\ ReturnedOk(i)) =>
            /\ Len(calls[i]) = 3
            /\ expenses[i] = <<5, 150, 280>>

C13_ScenarioSparse ==
    \A i \in Invocations :
        C13_Query(i) =>
            /\ Len(calls[i]) <= 4
            /\ \A k \in DOMAIN calls[i] :
                   /\ calls[i][k].limit = Some(100)
                   /\ calls[i][k].offset = Some((k - 1) * 100)
            /\ ReturnedOk(i) =>
                /\ Len(calls[i]) = 4
                /\ \A k \in 1..3 : Len(get_expenses(upstream, calls[i][k])) = 100
                /\ get_expenses(upstream, calls[i][4]) = <<>>
                /\ expenses[i] = <<5, 150, 280>>
                /\ \A k \in 1..3 :
                       result[i][1].value[k]["id"] = json(<<5, 150, 280>>[k])

\* The query of the scenario has returned, with the deletion check off, so
\* that the category check alone turned the other 297 records down.
C13_Witness ==
    \E i \in Invocations :
        /\ C13_Query(i) /\ ReturnedOk(i) /\ path[i] = "search"
        /\ args[i].include_deleted = Some("include")
        /\ Len(calls[i]) = 4 /\ Len(result[i][1].value) = 3

----------------------------------------------------------------------------
(* C14  Scenario: against an upstream of exactly 100 records a query       *)
(* without cap issues exactly 2 requests, the second of which returns an   *)
(* empty batch and signals exhaustion.                                     *)
(* The search/category loop does so.  Without search text and category set *)
(* the code takes the single-call path, whatever the mode: one request,    *)
(* without limit, and no second request that could observe the end.        *)

C14_Query(i) ==
    /\ upstream.n = 100
    /\ args[i].limit = None /\ StartOffset(i) = 0

\* The claim as stated.
C14_ScenarioOneBatch ==
    \A i \in Invocations :
        (C14_Query(i) /\ ReturnedOk(i)) =>
            /\ Len(calls[i]) = 2
            /\ get_expenses(upstream, calls[i][1]) # <<>>
            /\ get_expenses(upstream, calls[i][2]) = <<>>

----------------------------------------------------------------------------
(* C15  No matches is not an error: when the source is exhausted - the     *)
(* awaited request answers with an empty batch - and no record has passed  *)
(* the filters, the run returns successfully with an empty list; a run     *)
(* fails only when its arguments do not deserialize or a request fails.    *)

C15_NoMatchesIsSuccess ==
    /\ [](\A i \in Invocations : ReturnedErr(i) => FailedForKnownReason(i))
    /\ [][\A i \in Invocations :
            (/\ FetchOk(i)
             /\ get_expenses(upstream, Outstanding(i)) = <<>>
             /\ expenses[i] = <<>>)
                => /\ ReturnedOk(i)'
                   /\ result'[i][1].value = <<>>]_vars

\* A run went through at least one batch of records, kept none of them, got
\* the empty batch and returned the empty list.
C15_Witness ==
    \E i \in Invocations :
        /\ ReturnedOk(i) /\ InLoop(i)
        /\ result[i][1].value = <<>> /\ expenses[i] = <<>>
        /\ Len(calls[i]) >= 2 /\ Covered(i) # {}
        /\ get_expenses(upstream, calls[i][Len(calls[i])]) = <<>>
        /\ ~ HasCap(i)

----------------------------------------------------------------------------
(* C16  Concurrent invocations are independent: when two invocations       *)
(* interleave their requests against the same unchanging upstream, each    *)
(* has its own accumulator and offset cursor - at every moment its state   *)
(* is one the same query passes through when it runs alone - and each      *)
(* returns exactly the result it would return if run alone.                *)

\* The handler's locals at entry.
EntryLocal ==
    [ pc |-> "init", path |-> "none", current_offset |-> 0,
      expenses |-> <<>>, calls |-> <<>>, result |-> None ]

\* A run alone whose awaited request is answered.
AloneStep(u, a, l) ==
    LET batch == get_expenses(u, l.calls[Len(l.calls)])
    IN  IF l.pc = "init" THEN start(u, a, l)
        ELSE IF l.path = "simple" THEN on_simple(u, a, l, batch)
        ELSE on_batch(u, a, l, batch)

\* The states a run alone passes through from l on while its requests are
\* answered, and the one it ends in.
RECURSIVE AloneStates(_, _, _)
AloneStates(u, a, l) ==
    IF l.pc = "done" THEN {l} ELSE {l} \cup AloneStates(u, a, AloneStep(u, a, l))

RECURSIVE AloneEnd(_, _, _)
AloneEnd(u, a, l) ==
    IF l.pc = "done" THEN l ELSE AloneEnd(u, a, AloneStep(u, a, l))

\* Every state of the run alone, those in which a request has failed included.
AloneReachable(u, a) ==
    LET ok == AloneStates(u, a, EntryLocal)
    IN  ok \cup {on_error(l, UpstreamError) : l \in {x \in ok : x.pc = "await"}}

C16_ConcurrentIndependent ==
    \A i \in Invocations :
        /\ Local(i) \in AloneReachable(upstream, args[i])
        /\ ReturnedOk(i) =>
               /\ result[i] = AloneEnd(upstream, args[i], EntryLocal).result
               /\ calls[i] = AloneEnd(upstream, args[i], EntryLocal).calls

\* Two different queries were in flight together, each past its first
\* batch, with different cursors and accumulators; one has now returned
\* its records while the other still awaits a batch.
C16_Witness ==
    \E i, j \in Invocations :
        /\ i # j /\ args[i] # args[j]
        /\ ReturnedOk(i) /\ Len(calls[i]) >= 2 /\ expenses[i] # <<>>
        /\ pc[j] = "await" /\ Len(calls[j]) >= 2 /\ expenses[j] # <<>>
        /\ current_offset[i] # current_offset[j]
        /\ expenses[i] # expenses[j]

----------------------------------------------------------------------------
(* C17  A tool call has exactly one outcome at the RPC layer: a result     *)
(* that carries the complete tool output, or an error whose message is the *)
(* tool error's message verbatim; never a response with both a partial     *)
(* result and an error, and no response before the handler has returned.   *)
(* The two JSON-RPC front ends answer with either a result member or an    *)
(* error member; main.rs answers a failure with a CallToolResult flagged   *)
(* is_error whose only content is the JSON object {"error": message}.      *)

\* The one text item of a response's content.
OnlyText(content) == IF Len(content) = 1 THEN content[1].text ELSE <<"none">>

C17_SuccessOutcome(i, resp) ==
    LET value == result[i][1].value
    IN  /\ Len(value) = Len(expenses[i])
        /\ IF frontend = "main"
           THEN /\ resp.is_error = None
                /\ OnlyText(resp.content) = value_to_string(value)
           ELSE /\ "result" \in DOMAIN resp /\ "error" \notin DOMAIN resp
                /\ OnlyText(resp.result.content) = value_to_string(value)

C17_ErrorOutcome(i, resp) ==
    LET message == error_to_string(result[i][1].error)
    IN  IF frontend = "main"
        THEN /\ resp.is_error = Some(TRUE)
             /\ OnlyText(resp.content) = value_to_string([error |-> message])
        ELSE /\ "error" \in DOMAIN resp /\ "result" \notin DOMAIN resp
             /\ resp.error.message = message

C17_WitnessMain ==
    \E i \in Invocations :
        /\ frontend = "main" /\ ReturnedErr(i) /\ expenses[i] # <<>>
        /\ response[i][1].is_error = Some(TRUE)

C17_WitnessSimple ==
    \E i \in Invocations :
        /\ frontend = "main_simple" /\ ReturnedOk(i) /\ Len(calls[i]) >= 2
        /\ Len(result[i][1].value) >= 2
        /\ "result" \in DOMAIN response[i][1]

----------------------------------------------------------------------------
(* C18  Fast path: a query that needs no client-side filtering (no search  *)
(* text, no category set, mode include) and gives no cap issues exactly    *)
(* one request, which carries the caller's own limit and offset, and       *)
(* returns the records of that request unfiltered and in order.            *)

FastPathQuery(a) ==
    /\ a.search_text = None /\ a.category_ids = None
    /\ a.include_deleted = Some("include")
    /\ a.limit = None

C18_FastPath ==
    \A i \in Invocations :
        (FastPathQuery(args[i]) /\ args[i].fields # None) =>
            /\ Len(calls[i]) <= 1
            /\ pc[i] # "init" => Len(calls[i]) = 1
            /\ \A k \in DOMAIN calls[i] :
                   /\ calls[i][k].limit = args[i].limit
                   /\ calls[i][k].offset = args[i].offset
                   /\ \A f \in DOMAIN Scope : calls[i][k][f] = args[i][f]
            /\ ReturnedOk(i) =>
                   /\ expenses[i] = get_expenses(upstream, calls[i][1])
                   /\ \A j \in DOMAIN expenses[i] :
                          result[i][1].value[j] =
                              project(ExpenseAt(upstream, expenses[i][j]), args[i].fields[1])

\* A fast-path query from offset 1 returned the upstream's page as it came,
\* deleted records included.
C18_Witness ==
    \E i \in Invocations :
        /\ FastPathQuery(args[i]) /\ ReturnedOk(i)
        /\ args[i].offset = Some(1) /\ calls[i][1].offset = Some(1)
        /\ Len(result[i][1].value) = UpstreamDefaultLimit
        /\ expenses[i][1] = 2
        /\ \E j \in DOMAIN expenses[i] :
               ExpenseAt(upstream, expenses[i][j]).deleted_at # None

----------------------------------------------------------------------------
(* C19  Every query that is not eligible for the fast path - it has a cap, *)
(* a search text, a category set or a mode other than include - is served  *)
(* by the batch loop: each of its requests carries limit 100, never the    *)
(* caller's limit and never none, and the first carries the caller's       *)
(* starting offset.                                                        *)
(* The code sends a query without search text and category set to the      *)
(* single-call path when it has no cap (whatever its mode) and when its    *)
(* mode is include (whatever its cap): the request then carries the        *)
(* caller's limit, or none.                                                *)

\* The claim as stated.
C19_BatchLoopUnlessFastPath ==
    \A i \in Invocations :
        ~ FastPathQuery(args[i]) =>
            /\ \A k \in DOMAIN calls[i] : calls[i][k].limit = Some(batch_size)
            /\ calls[i] # <<>> => calls[i][1].offset = Some(StartOffset(i))

----------------------------------------------------------------------------
(* C20  Offset progression: in a batch-loop run the k-th request carries   *)
(* offset = starting offset + (k - 1) * 100; consecutive requests differ   *)
(* by exactly 100 whatever number of records of a batch was accepted or    *)
(* rejected and whatever number of records the batch held.                 *)

C20_OffsetProgression ==
    \A i \in Invocations :
        InLoop(i) =>
            /\ \A k \in DOMAIN calls[i] :
                   calls[i][k].offset = Some(StartOffset(i) + (k - 1) * 100)
            /\ \A k \in 2..Len(calls[i]) :
                   calls[i][k].offset[1] - calls[i][k - 1].offset[1] = 100
            /\ pc[i] = "await" => current_offset[i] = calls[i][Len(calls[i])].offset[1]

\* A run issued three requests: the first batch was full and partly
\* rejected, the second held a single record, the third was empty.
C20_Witness ==
    \E i \in Invocations :
        /\ InLoop(i) /\ ReturnedOk(i) /\ Len(calls[i]) = 3
        /\ Len(get_expenses(upstream, calls[i][1])) = 100
        /\ Len(get_expenses(upstream, calls[i][2])) = 1
        /\ get_expenses(upstream, calls[i][3]) = <<>>
        /\ expenses[i] # <<>> /\ Len(expenses[i]) < 100
        /\ calls[i][3].offset = Some(StartOffset(i) + 200)

----------------------------------------------------------------------------
(* C21  Loop stop conditions: a batch loop issues another request if and   *)
(* only if the batch just received was not empty and the accumulator has   *)
(* not reached the cap.  It stops on an empty batch whatever it has        *)
(* accumulated, issues no request once the accumulator has reached the     *)
(* cap, and a non-empty batch of fewer than 100 records does not by itself *)
(* end the loop.                                                           *)

C21_LoopStop ==
    /\ [](\A i \in Invocations : (InLoop(i) /\ pc[i] = "await") => ~ CapReached(i))
    /\ [][\A i \in Invocations :
            (InLoop(i) /\ FetchOk(i)) =>
                LET batch == get_expenses(upstream, Outstanding(i))
                    another == Len(calls'[i]) = Len(calls[i]) + 1
                IN  /\ another <=>
                           (batch # <<>> /\ ~ (HasCap(i) /\ Len(expenses'[i]) >= Cap(i)))
                    /\ another => pc'[i] = "await"
                    /\ ~ another => (ReturnedOk(i)' /\ calls'[i] = calls[i])]_vars

\* A capped run stopped after its second batch, which was not empty, with
\* the cap reached and records left upstream.
C21_Witness ==
    \E i \in Invocations :
        /\ InLoop(i) /\ ReturnedOk(i) /\ CapReached(i) /\ Cap(i) > 0
        /\ Len(calls[i]) = 2
        /\ get_expenses(upstream, calls[i][2]) # <<>>
        /\ upstream.n > calls[i][2].offset[1] + batch_size

\* A run went on after a batch of a single record and stopped on the empty
\* batch that followed, with records accumulated and its cap not reached.
C21_WitnessShortBatch ==
    \E i \in Invocations :
        /\ InLoop(i) /\ ReturnedOk(i) /\ HasCap(i) /\ ~ CapReached(i)
        /\ Len(calls[i]) = 3 /\ expenses[i] # <<>>
        /\ Len(get_expenses(upstream, calls[i][2])) = 1
        /\ get_expenses(upstream, calls[i][3]) = <<>>

----------------------------------------------------------------------------
(* C22  Accumulator invariant: in a batch-loop run with cap C >= 0 the     *)
(* accumulator never holds more than C records - not between two batches   *)
(* and not inside the appending of a batch that holds more accepted        *)
(* records than are still needed, before the final truncation - and it     *)
(* only ever grows by appending at its end.                                *)

\* s is t without t's last element.
IsPushOf(t, s) == Len(t) = Len(s) + 1 /\ SubSeq(t, 1, Len(s)) = s

C22_AccumulatorInvariant ==
    /\ [](\A i \in Invocations :
            (InLoop(i) /\ HasCap(i)) => Len(expenses[i]) <= Cap(i))
    /\ [][\A i \in Invocations :
            (InLoop(i) /\ FetchOk(i)) =>
                LET batch == get_expenses(upstream, Outstanding(i))
                    kept == retain_batch(upstream, args[i], path[i], batch)
                    mid == push_states(expenses[i], kept, desired_count(args[i]))
                IN  /\ HasCap(i) => \A k \in DOMAIN mid : Len(mid[k]) <= Cap(i)
                    /\ \A k \in DOMAIN mid :
                           IsPushOf(mid[k], IF k = 1 THEN expenses[i] ELSE mid[k - 1])
                    /\ expenses'[i] = IF mid = <<>> THEN expenses[i] ELSE mid[Len(mid)]]_vars

\* A run with cap 2 received a batch with more than 2 accepted records and
\* holds exactly 2.
C22_Witness ==
    \E i \in Invocations :
        /\ InLoop(i) /\ HasCap(i) /\ Cap(i) = 2 /\ Len(calls[i]) = 1
        /\ pc[i] = "done" /\ Len(expenses[i]) = 2
        /\ Len(retain_batch(upstream, args[i], path[i],
                            get_expenses(upstream, calls[i][1]))) > 2

----------------------------------------------------------------------------
(* C23  The requests of one invocation are strictly sequential: at most    *)
(* one is outstanding at any moment, and the request for offset o + 100 is *)
(* issued only when the request for offset o has completed successfully    *)
(* with a batch that is not empty.                                         *)

\* The requests of run i that have not been answered (with a page or with
\* a failure).
Unanswered(i) ==
    IF pc[i] = "await" THEN {k \in DOMAIN calls[i] : k > Answered(i)} ELSE {}

C23_Sequential ==
    /\ [](\A i \in Invocations :
            /\ Cardinality(Unanswered(i)) <= 1
            /\ pc[i] = "await" => Unanswered(i) = {Len(calls[i])})
    /\ [][\A i \in Invocations :
            calls'[i] # calls[i] =>
                /\ Len(calls'[i]) = Len(calls[i]) + 1
                /\ SubSeq(calls'[i], 1, Len(calls[i])) = calls[i]
                /\ calls[i] # <<>> =>
                       /\ pc[i] = "await" /\ FetchOk(i)
                       /\ get_expenses(upstream, Outstanding(i)) # <<>>
                       /\ calls'[i][Len(calls'[i])].offset
                              = Some(Outstanding(i).offset[1] + 100)]_vars

\* A run awaits its third request, the first two having been answered
\* with batches that were not empty.
C23_Witness ==
    \E i \in Invocations :
        /\ pc[i] = "await" /\ Len(calls[i]) = 3
        /\ \A k \in 1..2 : get_expenses(upstream, calls[i][k]) # <<>>
        /\ calls[i][3].offset = Some(StartOffset(i) + 200)

----------------------------------------------------------------------------
(* C24  Scope filters are forwarded unchanged: every request of an         *)
(* invocation carries exactly the caller's group id, friend id,            *)
(* dated-after and dated-before values - in the parameters handed to       *)
(* get_expenses and in the query it sends - and none of them when the      *)
(* caller gave none; across the iterations of a batch loop only the offset *)
(* changes.                                                                *)

ScopeFields == {"group_id", "friend_id", "dated_after", "dated_before"}

\* The values the query q sends under the name f.
QueryValues(q, f) == {q[k][2] : k \in {j \in DOMAIN q : q[j][1] = f}}

\* How query_params writes the caller's value v of the scope filter f.
AsQueryValue(f, v) ==
    IF f \in {"group_id", "friend_id"} THEN int_to_string(v) ELSE v

C24_ScopeForwarded ==
    \A i \in Invocations :
        \A k \in DOMAIN calls[i] :
            LET c == calls[i][k]
                q == query_params(c)
            IN  /\ \A f \in ScopeFields :
                       /\ c[f] = args[i][f]
                       /\ QueryValues(q, f) =
                              IF args[i][f] = None THEN {}
                              ELSE {AsQueryValue(f, args[i][f][1])}
                       /\ Cardinality({j \in DOMAIN q : q[j][1] = f}) <= 1
                /\ c.updated_after = None /\ c.updated_before = None
                /\ \A j \in DOMAIN q :
                       q[j][1] \in ScopeFields \cup {"limit", "offset"}
                /\ InLoop(i) =>
                       c = [calls[i][1] EXCEPT !.offset = c.offset]

\* A batch-loop run with a friend id and a dated-before value, and without
\* group id and dated-after value, has issued three requests.
C24_Witness ==
    \E i \in Invocations :
        /\ InLoop(i) /\ ReturnedOk(i) /\ Len(calls[i]) = 3
        /\ args[i].group_id = None /\ args[i].friend_id = Some(3)
        /\ args[i].dated_after = None /\ args[i].dated_before = Some("2024-12-31")
        /\ calls[i][3].friend_id = Some(3)
        /\ calls[i][1].offset # calls[i][3].offset

----------------------------------------------------------------------------
(* C25  The projection does not depend on the order or the multiplicity of *)
(* the requested names: for any record, two field lists that hold the same *)
(* set of names, in any order and with or without repeats, project to the  *)
(* same map.                                                               *)

\* The field lists that hold the same names as the list of run i.
SameNames(i) ==
    {fl \in ProjectionFieldLists : Range(fl[1]) = Requested(i)}

C25_ProjectionOrderIndependent ==
    \A i \in Invocations :
        ReturnedOk(i) =>
            \A j \in DOMAIN expenses[i] :
                \A fl \in SameNames(i) :
                    project(ExpenseAt(upstream, expenses[i][j]), fl[1])
                        = result[i][1].value[j]

\* A result for the list deleted_at, id holds the map of a deleted record;
\* the same names are also asked for in the other order; and a result for
\* the list id, id is set against the list id.
C25_Witness ==
    \E i \in Invocations :
        /\ ReturnedOk(i)
        /\ args[i].fields = Some(<<"deleted_at", "id">>)
        /\ Some(<<"id", "deleted_at">>) \in SameNames(i)
        /\ \E j \in DOMAIN expenses[i] :
               DOMAIN result[i][1].value[j] = {"id", "deleted_at"}

C25_WitnessRepeat ==
    \E i \in Invocations :
        /\ ReturnedOk(i) /\ expenses[i] # <<>>
        /\ args[i].fields = Some(<<"id", "id">>)
        /\ Some(<<"id">>) \in SameNames(i)

----------------------------------------------------------------------------
(* C26  With a cap C the result is the first min(C, m) accepted records:   *)
(* the prefix of that length of the sequence of the upstream records at or *)
(* after the starting offset that pass the filters (m is their number), in *)
(* upstream order, no record repeated or skipped.                          *)

\* The upstream records at or after the starting offset of run i that pass
\* the filter evaluator, in upstream order.
AcceptedFromOffset(i) ==
    LET accepted == {k \in Kinds : PassesAll(args[i], KindRecord[k])}
        from == StartOffset(i)
        rest == [k \in 1..Max(0, upstream.n - from) |-> from + k]
    IN  SelectSeq(rest, LAMBDA x : KindAt(upstream.layout, x) \in accepted)

C26_WitnessAll ==
    \E i \in Invocations :
        /\ ReturnedOk(i) /\ InLoop(i) /\ HasCap(i) /\ Cap(i) = batch_size + 1
        /\ StartOffset(i) = 1 /\ expenses[i] # <<>>
        /\ Len(expenses[i]) < Cap(i) /\ Len(calls[i]) >= 3

----------------------------------------------------------------------------
(* C27  The two projection paths agree: for every record and every         *)
(* requested field list, the map produced by the projection of             *)
(* list_expenses equals the map produced by the projection of get_expense. *)
(* Each tool's output is set against the other tool's projection of the    *)
(* same record.                                                            *)

C27_ProjectionsAgree ==
    \A i \in Invocations :
        ReturnedOk(i) =>
            IF args[i].name = "get_expense"
            THEN result[i][1].value =
                     project(ExpenseAt(upstream, args[i].expense_id), args[i].fields[1])
            ELSE \A j \in DOMAIN expenses[i] :
                     result[i][1].value[j] =
                         project_get_expense(ExpenseAt(upstream, expenses[i][j]),
                                             args[i].fields[1])

\* get_expense returned a deleted record's map for every recognised name
\* and an unknown one.
C27_Witness ==
    \E i \in Invocations :
        /\ ReturnedOk(i) /\ args[i].name = "get_expense"
        /\ args[i].fields = Some(ProjectedFields \o <<"notes">>)
        /\ ExpenseAt(upstream, args[i].expense_id).deleted_at # None
        /\ ExpenseAt(upstream, args[i].expense_id).deleted_by = None
        /\ DOMAIN result[i][1].value = RecognisedFields \ {"deleted_by"}

\* list_expenses returned maps for the names deleted_by and group_id.
C27_WitnessList ==
    \E i \in Invocations :
        /\ ReturnedOk(i) /\ args[i].name = "list_expenses"
        /\ args[i].fields = Some(<<"deleted_by", "group_id">>)
        /\ Len(result[i][1].value) = 16

----------------------------------------------------------------------------
(* C28  A cap of 0 on a query served by a batch loop (search text or       *)
(* category set present, or a deletion-visibility mode other than include) *)
(* issues no Page Source call at all and returns the empty list: the run   *)
(* never has a request outstanding, and its only outcome is the success    *)
(* with no record.                                                         *)

ZeroCapBatchLoop(i) ==
    /\ args[i].name = "list_expenses"
    /\ args_deserialize(args[i])
    /\ args[i].limit = Some(0)
    /\ fetch_path(args[i]) # "simple"

C28_ZeroCapNoCall ==
    \A i \in Invocations :
        ZeroCapBatchLoop(i) =>
            /\ calls[i] = <<>>
            /\ pc[i] \in {"init", "done"}
            /\ Returned(i) => ReturnedOk(i) /\ result[i][1].value = <<>>

\* A run with cap 0 and a search text has returned although the upstream
\* holds records that match.
C28_Witness ==
    \E i \in Invocations :
        /\ ZeroCapBatchLoop(i) /\ ReturnedOk(i)
        /\ args[i].search_text # None
        /\ \E k \in 1..upstream.n : PassesAll(args[i], ExpenseAt(upstream, k))

\* The same on the deleted-only loop.
C28_WitnessDeleted ==
    \E i \in Invocations :
        /\ ZeroCapBatchLoop(i) /\ ReturnedOk(i)
        /\ fetch_path(args[i]) = "deleted"
        /\ \E k \in 1..upstream.n : PassesAll(args[i], ExpenseAt(upstream, k))

----------------------------------------------------------------------------
(* C29  When a search text is present and the search-field list names no   *)
(* recognised field (it is empty, or holds only names other than           *)
(* description, details and category), no record is accepted: the run      *)
(* fetches batches until the upstream is exhausted and returns the empty   *)
(* list, also when a cap is given.                                         *)

NoRecognisedSearchField(i) ==
    /\ args[i].name = "list_expenses"
    /\ args_deserialize(args[i])
    /\ args[i].search_text # None
    /\ RequestedSearchFields(args[i]) = {}

\* The last request of run i was answered with the empty batch.
Exhausted(i) ==
    /\ calls[i] # <<>>
    /\ get_expenses(upstream, calls[i][Len(calls[i])]) = <<>>

\* The text of run i occurs in one of the three searchable fields of e.
TextOccurs(i, e) ==
    \E f \in {"description", "details", "category"} :
        /\ FieldText(f, e) # None
        /\ IsSubstring(to_lowercase(args[i].search_text[1]),
                       to_lowercase(FieldText(f, e)[1]))

\* The claim as stated, for every cap.
C29_Original ==
    \A i \in Invocations :
        NoRecognisedSearchField(i) =>
            /\ expenses[i] = <<>>
            /\ ReturnedOk(i) => result[i][1].value = <<>> /\ Exhausted(i)

\* Amended: the run fetches to exhaustion for every cap but 0; with cap 0
\* it returns the empty list without a request.
C29_NothingAccepted ==
    \A i \in Invocations :
        NoRecognisedSearchField(i) =>
            /\ expenses[i] = <<>>
            /\ ReturnedOk(i) =>
                   /\ result[i][1].value = <<>>
                   /\ IF args[i].limit = Some(0)
                      THEN calls[i] = <<>>
                      ELSE Exhausted(i)

\* A capped run with the empty search-field list has fetched past records
\* that hold the text and has returned.
C29_Witness ==
    \E i \in Invocations :
        /\ NoRecognisedSearchField(i) /\ ReturnedOk(i)
        /\ args[i].search_fields = Some(<<>>)
        /\ args[i].limit = Some(1)
        /\ Len(calls[i]) >= 3
        /\ \E k \in 1..upstream.n :
              /\ TextOccurs(i, ExpenseAt(upstream, k))
              /\ PassesDeletion(args[i], ExpenseAt(upstream, k))
              /\ PassesCategory(args[i], ExpenseAt(upstream, k))

\* The same with a list of unrecognised names and no cap.
C29_WitnessNames ==
    \E i \in Invocations :
        /\ NoRecognisedSearchField(i) /\ ReturnedOk(i)
        /\ args[i].search_fields = Some(<<"Description", "notes">>)
        /\ args[i].limit = None
        /\ Len(calls[i]) >= 2
        /\ \E k \in 1..upstream.n : TextOccurs(i, ExpenseAt(upstream, k))

----------------------------------------------------------------------------
(* C30  HTTP transport authentication gate: on the /mcp endpoint no tool   *)
(* call (and no other JSON-RPC method) is executed unless the request's    *)
(* Authorization header carries either the configured Bearer token or      *)
(* Basic credentials equal to the configured client id and client secret;  *)
(* every other request is answered 401 before the method is even parsed.   *)

\* The header of request i is "Bearer " followed by the configured token.
CarriesBearerToken(i) ==
    http.request[i].headers.authorization = Some(BearerPrefix \o http.state.auth_token)

\* The header of request i is "Basic " followed by the base64 encoding of
\* client id, ':' and client secret.
CarriesBasicCredentials(i) ==
    LET h == http.request[i].headers.authorization
    IN  /\ h # None
        /\ strip_prefix(h[1], BasicPrefix) # None
        /\ base64_decode(strip_prefix(h[1], BasicPrefix)[1]) =
               Some(http.state.client_id \o <<58>> \o http.state.client_secret)

CarriesCredentials(i) == CarriesBearerToken(i) \/ CarriesBasicCredentials(i)

\* A match arm of the handler has been entered, or the tool handler has run.
MethodExecuted(i) ==
    \/ http.outcome[i] # None /\ http.outcome[i][1].arm # None
    \/ pc[i] # "idle" \/ calls[i] # <<>> \/ response[i] # None

\* Request i has been answered with the status.
AnsweredWith(i, status) ==
    /\ http.outcome[i] # None
    /\ http.outcome[i][1].status = Some(status)
    /\ ~ http.outcome[i][1].parsed

\* The request has its answer.
HttpAnswered(i) ==
    \/ http.stage[i] \in {"rejected", "done"}
    \/ http.stage[i] = "tool" /\ response[i] # None

\* The claim as stated: every request without the credentials is answered 401.
C30_Original ==
    \A i \in Invocations :
        /\ MethodExecuted(i) => CarriesCredentials(i)
        /\ HttpAnswered(i) /\ ~ CarriesCredentials(i) => AnsweredWith(i, 401)

\* Amended: a request whose body the Json extractor rejects is answered with
\* the extractor's status, whatever its header; every other request without
\* the credentials is answered 401 before the method is parsed.  No method
\* is executed without the credentials.
C30_AuthGate ==
    \A i \in Invocations :
        /\ MethodExecuted(i) => CarriesCredentials(i)
        /\ HttpAnswered(i) /\ ~ CarriesCredentials(i) =>
              IF json_extract(http.request[i].body)
              THEN AnsweredWith(i, 401)
              ELSE /\ \E status \in JsonRejectionStatuses : AnsweredWith(i, status)
                   /\ ~ MethodExecuted(i)

\* A tools/call with Basic credentials of three parts, the first two being
\* the client id and the client secret, was answered 401.
C30_Witness ==
    \E i \in Invocations :
        /\ http.request[i].headers.authorization = Some(BasicThreeParts)
        /\ http.request[i].body.method = Some("tools/call")
        /\ http.request[i].body.params # None
        /\ http.state.client_secret = <<115, 51, 99, 114, 101, 116>>
        /\ AnsweredWith(i, 401) /\ ~ MethodExecuted(i)

\* A tools/call with the Basic credentials ran list_expenses against the
\* upstream and was answered.
C30_WitnessBasic ==
    \E i \in Invocations :
        /\ CarriesBasicCredentials(i) /\ ~ CarriesBearerToken(i)
        /\ http.stage[i] = "tool" /\ ReturnedOk(i) /\ calls[i] # <<>>
        /\ response[i] # None

\* The same with the Bearer token.
C30_WitnessBearer ==
    \E i \in Invocations :
        /\ CarriesBearerToken(i)
        /\ http.stage[i] = "tool" /\ ReturnedOk(i) /\ calls[i] # <<>>

\* A request without credentials and with a body that is not JSON was
\* answered by the extractor.
C30_WitnessRejected ==
    \E i \in Invocations :
        /\ http.request[i].headers.authorization = None
        /\ http.stage[i] = "rejected"
        /\ AnsweredWith(i, 400)

====
